---- MODULE Spec2Model ----
(***************************************************************************)
(* Model of the interactive SSH session client of cisco_rus_configurator   *)
(* (core/ssh_client.py): connection set-up, device detection, paging       *)
(* suppression, the serialized command dispatch and its read loop, and     *)
(* the pure text functions the read loop and the result depend on.         *)
(*                                                                         *)
(* Text is a sequence of one-character strings, so that strip, split,      *)
(* endswith, substring search and lower() are computed, not assumed.       *)
(***************************************************************************)
EXTENDS Integers, Sequences, FiniteSets, TLC

\* ------------------------------------------------------------------ text

\* Python's None, as a device type ...
None == "None"

\* ... and as a handle (self.client = None, self.shell = None)
NoHandle == 0

Whitespace == {" ", "\n", "\r", "\t"}

\* The one element of a one-element set.  Only({ e(v) : v \in {x} }) is
\* e(x) with x worked out once and named v, as a local variable is.
Only(S) == CHOOSE x \in S : TRUE

RECURSIVE LStrip(_)
LStrip(s) ==
  IF s # <<>> /\ Head(s) \in Whitespace THEN LStrip(Tail(s)) ELSE s

RECURSIVE RStrip(_)
RStrip(s) ==
  Only({ IF v # <<>> /\ v[Len(v)] \in Whitespace
         THEN RStrip(SubSeq(v, 1, Len(v) - 1))
         ELSE v : v \in {s} })

\* str.strip()
Strip(s) == RStrip(LStrip(s))

\* Index of the first "\n" of s, 0 when there is none.
RECURSIVE FirstNewline(_, _)
FirstNewline(s, i) ==
  IF i > Len(s) THEN 0
  ELSE IF s[i] = "\n" THEN i
  ELSE FirstNewline(s, i + 1)

\* str.split('\n'): always at least one (possibly empty) piece.
RECURSIVE SplitLines(_)
SplitLines(s) ==
  Only({ LET k == FirstNewline(v, 1) IN
         IF k = 0 THEN << v >>
         ELSE << SubSeq(v, 1, k - 1) >> \o SplitLines(SubSeq(v, k + 1, Len(v)))
         : v \in {s} })

\* '\n'.join(lines)
RECURSIVE JoinLines(_)
JoinLines(lines) ==
  IF lines = <<>> THEN <<>>
  ELSE IF Len(lines) = 1 THEN lines[1]
  ELSE lines[1] \o << "\n" >> \o JoinLines(Tail(lines))

\* str.endswith(p)
EndsWith(s, p) ==
  /\ Len(p) <= Len(s)
  /\ SubSeq(s, Len(s) - Len(p) + 1, Len(s)) = p

\* p in s   (substring test; the empty string is in every string)
Contains(s, p) ==
  \E i \in 1..(Len(s) - Len(p) + 1) : SubSeq(s, i, i + Len(p) - 1) = p

LowerOf ==
  [A |-> "a", B |-> "b", C |-> "c", D |-> "d", E |-> "e", F |-> "f", G |-> "g",
   H |-> "h", I |-> "i", J |-> "j", K |-> "k", L |-> "l", M |-> "m", N |-> "n",
   O |-> "o", P |-> "p", Q |-> "q", R |-> "r", S |-> "s", T |-> "t", U |-> "u",
   V |-> "v", W |-> "w", X |-> "x", Y |-> "y", Z |-> "z"]

LowerChar(c) == IF c \in DOMAIN LowerOf THEN LowerOf[c] ELSE c

\* A banner used as it came, without lower().
AsReceived(s) == s

\* str.lower()
Lower(s) == [i \in 1..Len(s) |-> LowerChar(s[i])]

\* ------------------------------------------------- device profile tables

\* __init__: self.paging_commands
paging_commands ==
  [ cisco |-> <<"t", "e", "r", "m", "i", "n", "a", "l", " ", "l", "e", "n", "g", "t", "h", " ", "0">>,
    eltex |-> <<"t", "e", "r", "m", "i", "n", "a", "l", " ", "l", "e", "n", "g", "t", "h", " ", "0">>,
    juniper |-> <<"s", "e", "t", " ", "c", "l", "i", " ", "s", "c", "r", "e", "e", "n", "-", "l", "e", "n", "g", "t", "h", " ", "0">>,
    huawei |-> <<"s", "c", "r", "e", "e", "n", "-", "l", "e", "n", "g", "t", "h", " ", "0", " ", "t", "e", "m", "p", "o", "r", "a", "r", "y">>,
    hp |-> <<"t", "e", "r", "m", "i", "n", "a", "l", " ", "l", "e", "n", "g", "t", "h", " ", "0">>,
    aruba |-> <<"n", "o", " ", "p", "a", "g", "i", "n", "g">>,
    mikrotik |-> <<":", "p", "u", "t", " ", "[", "/", "s", "y", "s", "t", "e", "m", " ", "r", "e", "s", "o", "u", "r", "c", "e", " ", "p", "r", "i", "n", "t", "]">>,
    fortinet |-> <<"c", "o", "n", "f", "i", "g", " ", "s", "y", "s", "t", "e", "m", " ", "c", "o", "n", "s", "o", "l", "e", "\n", "s", "e", "t", " ", "o", "u", "t", "p", "u", "t", " ", "s", "t", "a", "n", "d", "a", "r", "d", "\n", "e", "n", "d">>,
    generic |-> <<"t", "e", "r", "m", "i", "n", "a", "l", " ", "l", "e", "n", "g", "t", "h", " ", "0">> ]

\* _detect_device_type: the vendors in the order of the if/elif chain, each
\* with its markers.
DetectionPatterns ==
  << [vendor |-> "cisco", patterns |-> << <<"c", "i", "s", "c", "o">>, <<"i", "o", "s">>, <<"n", "x", "-", "o", "s">>, <<"a", "s", "a">> >>],
     [vendor |-> "eltex", patterns |-> << <<"e", "l", "t", "e", "x">>, <<"m", "e", "s", "-">>, <<"l", "t", "p", "-">>, <<"t", "a", "u", "-">> >>],
     [vendor |-> "juniper", patterns |-> << <<"j", "u", "n", "o", "s">>, <<"j", "u", "n", "i", "p", "e", "r">>, <<"e", "x", "-">>, <<"s", "r", "x", "-">>, <<"m", "x", "-">> >>],
     [vendor |-> "huawei", patterns |-> << <<"h", "u", "a", "w", "e", "i">>, <<"v", "r", "p">>, <<"v", "e", "r", "s", "a", "t", "i", "l", "e", " ", "r", "o", "u", "t", "i", "n", "g", " ", "p", "l", "a", "t", "f", "o", "r", "m">> >>],
     [vendor |-> "hp", patterns |-> << <<"h", "p", " ">>, <<"h", "e", "w", "l", "e", "t", "t", "-", "p", "a", "c", "k", "a", "r", "d">>, <<"p", "r", "o", "c", "u", "r", "v", "e">>, <<"p", "r", "o", "v", "i", "s", "i", "o", "n">> >>],
     [vendor |-> "aruba", patterns |-> << <<"a", "r", "u", "b", "a">>, <<"a", "r", "u", "b", "a", "o", "s">> >>],
     [vendor |-> "mikrotik", patterns |-> << <<"m", "i", "k", "r", "o", "t", "i", "k">>, <<"r", "o", "u", "t", "e", "r", "o", "s">> >>],
     [vendor |-> "fortinet", patterns |-> << <<"f", "o", "r", "t", "i", "n", "e", "t">>, <<"f", "o", "r", "t", "i", "g", "a", "t", "e">>, <<"f", "o", "r", "t", "i", "o", "s">> >>] >>

\* _is_prompt_ready: prompt_patterns
prompt_patterns ==
  [ cisco |-> << <<"#">>, <<">">>, <<"(", "c", "o", "n", "f", "i", "g", ")", "#">>, <<"(", "c", "o", "n", "f", "i", "g", "-", "i", "f", ")", "#">> >>,
    eltex |-> << <<"#">>, <<">">>, <<"(", "c", "o", "n", "f", "i", "g", ")", "#">>, <<"(", "c", "o", "n", "f", "i", "g", "-", "i", "f", ")", "#">> >>,
    juniper |-> << <<">">>, <<"#">>, <<"%", " ">> >>,
    huawei |-> << <<"<">>, <<">">>, <<"]">>, <<"#">> >>,
    hp |-> << <<"#">>, <<">">>, <<"%", " ">> >>,
    aruba |-> << <<"#">>, <<">">>, <<"%", " ">> >>,
    mikrotik |-> << <<">">>, <<"]", " ">> >>,
    fortinet |-> << <<"#">>, <<"$", " ">> >>,
    generic |-> << <<"#">>, <<">">>, <<"$", " ">> >> ]

Vendors == DOMAIN prompt_patterns

\* get_device_info: version_commands
version_commands ==
  [ cisco |-> <<"s", "h", "o", "w", " ", "v", "e", "r", "s", "i", "o", "n">>,
    eltex |-> <<"s", "h", "o", "w", " ", "v", "e", "r", "s", "i", "o", "n">>,
    juniper |-> <<"s", "h", "o", "w", " ", "v", "e", "r", "s", "i", "o", "n">>,
    huawei |-> <<"d", "i", "s", "p", "l", "a", "y", " ", "v", "e", "r", "s", "i", "o", "n">>,
    hp |-> <<"s", "h", "o", "w", " ", "v", "e", "r", "s", "i", "o", "n">>,
    aruba |-> <<"s", "h", "o", "w", " ", "v", "e", "r", "s", "i", "o", "n">>,
    mikrotik |-> <<"/", "s", "y", "s", "t", "e", "m", " ", "r", "e", "s", "o", "u", "r", "c", "e", " ", "p", "r", "i", "n", "t">>,
    fortinet |-> <<"g", "e", "t", " ", "s", "y", "s", "t", "e", "m", " ", "s", "t", "a", "t", "u", "s">>,
    generic |-> <<"s", "h", "o", "w", " ", "v", "e", "r", "s", "i", "o", "n">> ]

\* ------------------------------------------------------- pure functions

\* _detect_device_type(initial_output): first vendor of the chain one of whose
\* markers occurs in the lower-cased banner, else 'generic'.
RECURSIVE DetectFrom(_, _)
DetectFrom(output_lower, k) ==
  IF k > Len(DetectionPatterns) THEN "generic"
  ELSE IF \E j \in 1..Len(DetectionPatterns[k].patterns) :
            Contains(output_lower, DetectionPatterns[k].patterns[j])
       THEN DetectionPatterns[k].vendor
       ELSE DetectFrom(output_lower, k + 1)

DetectDeviceType(initial_output) == DetectFrom(Lower(initial_output), 1)

\* A lookup that has no fallback: nothing for a key the table lacks.
PatternsOrNothing(dtype) ==
  IF dtype \in DOMAIN prompt_patterns THEN prompt_patterns[dtype] ELSE << >>

\* prompt_patterns.get(self.device_type, prompt_patterns['generic'])
PatternsFor(dtype) ==
  IF dtype \in DOMAIN prompt_patterns THEN prompt_patterns[dtype]
  ELSE prompt_patterns["generic"]

\* _is_prompt_ready(output) for a session whose device_type is dtype
IsPromptReady(output, dtype) ==
  LET patterns == PatternsFor(dtype) IN
  \E lines \in { SplitLines(Strip(output)) } :
    \E last_line \in { Strip(lines[Len(lines)]) } :
      \E j \in 1..Len(patterns) : EndsWith(last_line, patterns[j])

\* The substrings whose presence makes _clean_output drop a line.
CleanPromptMarks == << <<"#">>, <<">">>, <<"$", " ">>, <<"]", " ">> >>

\* The for-loop of _clean_output over lines[i..]; skip is skip_command_echo,
\* acc is cleaned_lines.
RECURSIVE CleanLoop(_, _, _, _, _)
CleanLoop(lines, i, command, skip, acc) ==
  IF i > Len(lines) THEN acc
  ELSE LET line == Strip(lines[i]) IN
       IF skip /\ Contains(line, command)
       THEN CleanLoop(lines, i + 1, command, FALSE, acc)
       ELSE IF acc = <<>> /\ line = <<>>
       THEN CleanLoop(lines, i + 1, command, skip, acc)
       ELSE IF \E j \in 1..Len(CleanPromptMarks) : Contains(line, CleanPromptMarks[j])
       THEN CleanLoop(lines, i + 1, command, skip, acc)
       ELSE CleanLoop(lines, i + 1, command, skip, Append(acc, line))

\* while cleaned_lines and not cleaned_lines[-1]: cleaned_lines.pop()
RECURSIVE PopEmptyTail(_)
PopEmptyTail(ls) ==
  Only({ IF v # <<>> /\ v[Len(v)] = <<>>
         THEN PopEmptyTail(SubSeq(v, 1, Len(v) - 1))
         ELSE v : v \in {ls} })

\* _clean_output(output, command)
CleanOutput(output, command) ==
  IF output = <<>> THEN <<>>
  ELSE Only({ JoinLines(cleaned_lines) :
                cleaned_lines \in { PopEmptyTail(kept) :
                  kept \in { CleanLoop(lines, 1, command, TRUE, <<>>) :
                    lines \in { SplitLines(output) } } } })

\* --------------------------------------------------------------- bounds

\* Total number of API calls (connect, disconnect, execute_command) made on
\* the session in one behaviour.
MaxCalls == 3

\* Largest command timeout, in seconds, a caller passes to execute_command.
MaxTimeout == 3

\* The timeouts callers pass: the shortest, which ends before the idle rule
\* can apply, and the longest.
Timeouts == {1, MaxTimeout}

\* A clock that stands still.
NoTicks == {0}

\* The whole seconds by which time.time() may have advanced from one pass
\* of the read loop to the next.
Ticks == {0, 1}

\* `if output and (time.time() - last_data_time) > 2`
IdleThreshold == 2

\* self.lock when no thread holds it
Unlocked == "unlocked"

\* Two caller threads share one SSHClient: the owner, which connects,
\* executes commands and disconnects, and a second caller of execute_command.
Owner == "owner"
Threads == {Owner, "worker"}

\* The login banners a device prints, as chunks, where sessions are then
\* used: none (which resolves to 'generic') or a RouterOS one.
SessionBanners ==
  { << >>,
    << << "R", "o", "u", "t", "e", "r", "O", "S", "\n", ">" >> >> }

\* The login banners where connect is studied on its own: none, or one
\* naming a vendor of the detection chain by its first marker.
ConnectBanners ==
  { << >> } \cup
  { << DetectionPatterns[k].patterns[1] \o << "\n", "#" >> >> :
      k \in 1..Len(DetectionPatterns) }

\* What the device prints after a paging-disable command.
PagingReplies == { << << "P", "\n", "R", "#" >> >> }

\* ---------------------------------------------------------------- state

VARIABLES
  client,        \* self.client: None or the id of a paramiko client
  shell,         \* self.shell: None or the id of a channel
  connected,     \* self.connected
  device_type,   \* self.device_type
  lock,          \* self.lock: Unlocked, or the thread holding it
  opened,        \* number of handles (clients and channels) created so far
  closed,        \* the handles whose close() has returned
  rx,            \* bytes received on the current channel and not yet read
  pending,       \* chunks the device has still to deliver on the channel
  wire,          \* what has been sent on the current channel, in order
  pc,            \* each thread's position
  frame,         \* each thread's locals of the call in progress
  calls,         \* API calls started so far
  lastDone,      \* the call that returned last, and what it returned
  arg,           \* the arguments of the function or macro run on its own
  ret            \* what it has returned or recorded so far

session == << client, shell, connected, device_type >>
handles == << opened, closed >>
channel == << rx, pending, wire >>
applied == << arg, ret >>
vars == << client, shell, connected, device_type, lock, opened, closed,
           rx, pending, wire, pc, frame, calls, lastDone, arg, ret >>

\* A thread's locals.  inConnect: disconnect was called by connect's handler;
\* timeout, output, elapsed (now - start_time), sinceData (now -
\* last_data_time): _wait_for_output's; how: where the call left its normal
\* path; closes: close() calls made; closeRaised: one of them raised;
\* after: this disconnect began right after another disconnect had returned.
IdleFrame ==
  [ inConnect |-> FALSE, timeout |-> 0, output |-> << >>, elapsed |-> 0,
    sinceData |-> 0, how |-> "none", closes |-> 0, closeRaised |-> FALSE,
    after |-> FALSE ]

NoCall ==
  [ op |-> "none", by |-> "nobody", kind |-> "none", out |-> << >>, how |-> "none",
    closes |-> 0, closeRaised |-> FALSE, after |-> FALSE ]

OthersIdle(t) == \A u \in Threads \ {t} : pc[u] = "idle"

\* No text function has been applied, or none has returned yet.
NoArg == [ fn |-> "none" ]
NoRet == [ done |-> FALSE ]

\* A macro loop that walks its list from the end.
MacroIndexBackwards == Len(arg.commands) - Len(ret.results)

\* The macro command the loop of execute_macro is at: one entry has been
\* recorded for each command before it.
MacroIndex == Len(ret.results) + 1

\* The command each thread executes (the owner's is the macro's current
\* command when it runs a macro), and the line the device answers it with.
Command(t) ==
  IF t = Owner /\ arg.fn = "execute_macro" THEN arg.commands[MacroIndex]
  ELSE IF t = Owner THEN << "a" >> ELSE << "b" >>
Content(t) == IF t = Owner THEN "A" ELSE "B"

\* What the device may produce after receiving thread t's command, as the
\* chunks in which it arrives: nothing, or the echo and then the answer with
\* the prompt (one recv reads every chunk that has arrived).
Responses(t) ==
  { << >>,
    << Command(t) \o << "\n" >>, << Content(t), "\n", "R", "#" >> >> }

\* The login banners a device may print.
Banners == IF arg.fn = "connect" THEN ConnectBanners ELSE SessionBanners

\* __init__
SessionInit ==
  /\ client = NoHandle
  /\ shell = NoHandle
  /\ connected = FALSE
  /\ device_type = None
  /\ lock = Unlocked
  /\ opened = 0
  /\ closed = {}
  /\ rx = << >>
  /\ pending = << >>
  /\ wire = << >>
  /\ pc = [t \in Threads |-> "idle"]
  /\ frame = [t \in Threads |-> IdleFrame]
  /\ calls = 0
  /\ lastDone = NoCall

Init ==
  /\ SessionInit
  /\ arg = NoArg
  /\ ret = NoRet

\* The locals of every thread when thread t enters an API call.
Entered(t, op, timeout) ==
  [u \in Threads |->
     IF u = t
     THEN [IdleFrame EXCEPT
             !.timeout = timeout,
             !.after = /\ op = "disconnect"
                       /\ OthersIdle(t)
                       /\ lastDone.op = "disconnect"]
     ELSE frame[u]]

\* Thread t may enter an API call.
CanBegin(t) == pc[t] = "idle" /\ calls < MaxCalls

\* Thread t's call returns, its locals being f (kind: what it returned or
\* raised; out: the string returned).
Return(t, f, op, kind, out) ==
  /\ pc' = [pc EXCEPT ![t] = "idle"]
  /\ frame' = [frame EXCEPT ![t] = IdleFrame]
  /\ lastDone' = [ op |-> op, by |-> t, kind |-> kind, out |-> out,
                   how |-> f.how, closes |-> f.closes,
                   closeRaised |-> f.closeRaised,
                   after |-> f.after /\ OthersIdle(t) ]

\* -------------------------------------------------------------- device

\* The device delivers the next chunk of what it has to say.
DeviceEmit ==
  /\ pending # << >>
  /\ rx' = rx \o Head(pending)
  /\ pending' = Tail(pending)
  /\ UNCHANGED << session, lock, handles, wire, pc, frame, calls, lastDone >>
  /\ UNCHANGED applied

\* ------------------------------------------------------------- connect

\* A step of connect raised: the handler calls self.disconnect().
Raised(t, f, step) ==
  /\ pc' = [pc EXCEPT ![t] = "d_shell"]
  /\ frame' = [f EXCEPT ![t].how = step, ![t].inConnect = TRUE]

\* self.client = paramiko.SSHClient(); self.client.connect(...)
connect(t) ==
  /\ t = Owner
  /\ CanBegin(t)
  /\ calls' = calls + 1
  /\ client' = opened + 1
  /\ opened' = opened + 1
  /\ \/ /\ pc' = [pc EXCEPT ![t] = "c_shell"]
        /\ frame' = Entered(t, "connect", 0)
     \/ Raised(t, Entered(t, "connect", 0), "open")
  /\ UNCHANGED << shell, connected, device_type, lock, closed, channel,
                  lastDone >>
  /\ UNCHANGED applied

\* self.shell = self.client.invoke_shell(); self.shell.settimeout(timeout)
connect_shell(t) ==
  /\ pc[t] = "c_shell"
  /\ \/ /\ client # NoHandle
        /\ shell' = opened + 1
        /\ opened' = opened + 1
        /\ rx' = << >>
        /\ wire' = << >>
        /\ \E b \in Banners : pending' = b
        /\ pc' = [pc EXCEPT ![t] = "c_banner"]
        /\ frame' = frame
     \/ /\ Raised(t, frame, "shell")
        /\ UNCHANGED << shell, opened, channel >>
  /\ UNCHANGED << client, connected, device_type, lock, closed, calls,
                  lastDone >>
  /\ UNCHANGED applied

\* time.sleep(self.initial_wait); if recv_ready(): initial_output = recv(4096)
\* self.device_type = self._detect_device_type(initial_output)
connect_banner(t) ==
  /\ pc[t] = "c_banner"
  /\ \/ /\ shell # NoHandle
        /\ device_type' = DetectDeviceType(rx)
        /\ rx' = << >>
        /\ pc' = [pc EXCEPT ![t] = "c_paging"]
        /\ frame' = frame
     \/ /\ shell = NoHandle \/ rx # << >>
        /\ Raised(t, frame, "banner")
        /\ UNCHANGED << device_type, rx >>
  /\ UNCHANGED << client, shell, connected, lock, handles, pending, wire,
                  calls, lastDone >>
  /\ UNCHANGED applied

\* paging_commands.get(self.device_type, paging_commands['generic'])
PagingCommand(dtype) ==
  IF dtype \in DOMAIN paging_commands THEN paging_commands[dtype]
  ELSE paging_commands["generic"]

\* version_commands.get(self.device_type, 'show version')
VersionCommand(dtype) ==
  IF dtype \in DOMAIN version_commands THEN version_commands[dtype]
  ELSE <<"s", "h", "o", "w", " ", "v", "e", "r", "s", "i", "o", "n">>

\* [cmd.strip() for cmd in paging_cmd.split('\n') if cmd.strip()]
RECURSIVE StripNonEmpty(_)
StripNonEmpty(lines) ==
  IF lines = << >> THEN << >>
  ELSE IF Strip(Head(lines)) = << >> THEN StripNonEmpty(Tail(lines))
  ELSE << Strip(Head(lines)) >> \o StripNonEmpty(Tail(lines))

\* _disable_paging without its vendor cases: the table entry sent as it is.
PagingSendsWhole(dtype) == << PagingCommand(dtype) >>

\* The commands _disable_paging sends for a device type, in order.
PagingSends(dtype) ==
  IF dtype = "fortinet" THEN StripNonEmpty(SplitLines(PagingCommand(dtype)))
  ELSE IF dtype = "mikrotik" THEN << >>
  ELSE << PagingCommand(dtype) >>

\* shell.send(command + '\n') for each command of cmds
SendAll(cmds) == [i \in 1..Len(cmds) |-> cmds[i] \o << "\n" >>]

\* self.connected = True; return True
ConnectDone(t, f) ==
  /\ connected' = TRUE
  /\ Return(t, f, "connect", "True", << >>)

\* _disable_paging, up to its settle delay: the sends.  For MikroTik it
\* returns at once.  A send that raises (or a missing shell) is caught and
\* logged ("Continue anyway"), and connect goes on to report success.
disable_paging_send(t) ==
  /\ pc[t] = "c_paging"
  /\ LET cmds == PagingSends(device_type) IN
     \/ /\ cmds # << >>
        /\ shell # NoHandle
        /\ wire' = wire \o SendAll(cmds)
        /\ \E r \in PagingReplies : pending' = pending \o r
        /\ pc' = [pc EXCEPT ![t] = "c_drain"]
        /\ UNCHANGED << connected, frame, lastDone >>
     \/ /\ cmds = << >>
        /\ ConnectDone(t, frame[t])
        /\ UNCHANGED << wire, pending >>
     \/ /\ cmds # << >>
        /\ \E k \in 0..(Len(cmds) - 1) :
             /\ k > 0 => shell # NoHandle
             /\ wire' = wire \o SendAll(SubSeq(cmds, 1, k))
        /\ pending' = pending
        /\ ConnectDone(t, [frame[t] EXCEPT !.how = "paging"])
  /\ UNCHANGED << client, shell, device_type, lock, handles, rx, calls >>
  /\ UNCHANGED applied

\* _disable_paging, after time.sleep(self.disable_paging_wait):
\* if self.shell.recv_ready(): self.shell.recv(4096)
\* (whatever happens here is caught), then connect's last lines.
disable_paging_drain(t) ==
  /\ pc[t] = "c_drain"
  /\ \/ rx' = IF shell # NoHandle THEN << >> ELSE rx
     \/ rx' = rx
  /\ ConnectDone(t, frame[t])
  /\ UNCHANGED << client, shell, device_type, lock, handles, pending, wire,
                  calls >>
  /\ UNCHANGED applied

\* ---------------------------------------------------------- disconnect

\* disconnect returns to its caller: connect's handler (which returns False)
\* or the API caller.
DisconnectReturn(t, f) ==
  IF f.inConnect
  THEN Return(t, f, "connect", "False", << >>)
  ELSE Return(t, f, "disconnect", "None", << >>)

\* close() raised and the lock is kept: a disconnect that acquires the lock
\* and releases it by hand, on the normal path only.
CloseRaisedHoldingLock(t, f) ==
  /\ lock' = t
  /\ DisconnectReturn(t, [f EXCEPT !.closes = @ + 1, !.closeRaised = TRUE])

\* close() raised: the handler logs, the with-block releases the lock and
\* disconnect returns, the rest of its try block skipped.
CloseRaised(t, f) ==
  /\ lock' = Unlocked
  /\ DisconnectReturn(t, [f EXCEPT !.closes = @ + 1, !.closeRaised = TRUE])

\* with self.lock: if self.shell: self.shell.close(); self.shell = None
disconnect_shell(t, f) ==
  /\ lock = Unlocked
  /\ IF shell = NoHandle
     THEN /\ lock' = t
          /\ pc' = [pc EXCEPT ![t] = "d_client"]
          /\ frame' = [frame EXCEPT ![t] = f]
          /\ UNCHANGED << shell, closed, channel, lastDone >>
     ELSE \/ /\ lock' = t
             /\ closed' = closed \cup {shell}
             /\ shell' = NoHandle
             /\ rx' = << >>
             /\ pending' = << >>
             /\ wire' = wire
             /\ pc' = [pc EXCEPT ![t] = "d_client"]
             /\ frame' = [frame EXCEPT ![t] = [f EXCEPT !.closes = @ + 1]]
             /\ lastDone' = lastDone
          \/ /\ CloseRaised(t, f)
             /\ UNCHANGED << shell, closed, channel >>
  /\ UNCHANGED << client, connected, device_type, opened >>

\* disconnect(), called by an API caller
disconnect(t) ==
  /\ t = Owner
  /\ CanBegin(t)
  /\ calls' = calls + 1
  /\ disconnect_shell(t, Entered(t, "disconnect", 0)[t])
  /\ UNCHANGED applied

\* An exception handler of connect that returns False without self.disconnect().
connect_except_skipped(t) ==
  /\ pc[t] = "d_shell"
  /\ Return(t, frame[t], "connect", "False", << >>)
  /\ UNCHANGED << session, lock, handles, channel, calls >>
  /\ UNCHANGED applied

\* self.disconnect(), called by connect's exception handlers
connect_except(t) ==
  /\ pc[t] = "d_shell"
  /\ calls' = calls
  /\ disconnect_shell(t, frame[t])
  /\ UNCHANGED applied

\* if self.client: self.client.close(); self.client = None
disconnect_client(t) ==
  /\ pc[t] = "d_client"
  /\ IF client = NoHandle
     THEN /\ pc' = [pc EXCEPT ![t] = "d_flags"]
          /\ UNCHANGED << client, closed, frame, lock, lastDone >>
     ELSE \/ /\ closed' = closed \cup {client}
             /\ client' = NoHandle
             /\ pc' = [pc EXCEPT ![t] = "d_flags"]
             /\ frame' = [frame EXCEPT ![t].closes = @ + 1]
             /\ UNCHANGED << lock, lastDone >>
          \/ /\ CloseRaised(t, frame[t])
             /\ UNCHANGED << client, closed >>
  /\ UNCHANGED << shell, connected, device_type, opened, channel, calls >>
  /\ UNCHANGED applied

\* self.connected = False; self.device_type = None; leave the with-block
disconnect_flags(t) ==
  /\ pc[t] = "d_flags"
  /\ connected' = FALSE
  /\ device_type' = None
  /\ lock' = Unlocked
  /\ DisconnectReturn(t, frame[t])
  /\ UNCHANGED << client, shell, handles, channel, calls >>
  /\ UNCHANGED applied

\* ----------------------------------------------------- execute_command

\* An execute_command without the test of self.connected.
execute_command_unchecked(t) ==
  /\ CanBegin(t)
  /\ calls' = calls + 1
  /\ \E timeout \in Timeouts :
       /\ pc' = [pc EXCEPT ![t] = "e_check_shell"]
       /\ frame' = Entered(t, "execute_command", timeout)
       /\ lastDone' = lastDone
  /\ UNCHANGED << session, lock, handles, channel >>
  /\ UNCHANGED applied

\* if not self.connected ...: raise Exception("Not connected to device")
execute_command(t) ==
  /\ CanBegin(t)
  /\ calls' = calls + 1
  /\ \E timeout \in Timeouts :
       IF ~connected
       THEN Return(t, Entered(t, "execute_command", timeout)[t],
                   "execute_command", "NotConnected", << >>)
       ELSE /\ pc' = [pc EXCEPT ![t] = "e_check_shell"]
            /\ frame' = Entered(t, "execute_command", timeout)
            /\ lastDone' = lastDone
  /\ UNCHANGED << session, lock, handles, channel >>
  /\ UNCHANGED applied

\* A check that marks the session disconnected when it finds no shell.
execute_command_check_shell_resetting(t) ==
  /\ pc[t] = "e_check_shell"
  /\ IF shell = NoHandle
     THEN /\ connected' = FALSE
          /\ device_type' = None
          /\ Return(t, frame[t], "execute_command", "NotConnected", << >>)
     ELSE /\ pc' = [pc EXCEPT ![t] = "e_send"]
          /\ UNCHANGED << connected, device_type, frame, lastDone >>
  /\ UNCHANGED << client, shell, lock, handles, channel, calls >>
  /\ UNCHANGED applied

\* ... or not self.shell: raise Exception("Not connected to device")
execute_command_check_shell(t) ==
  /\ pc[t] = "e_check_shell"
  /\ IF shell = NoHandle
     THEN Return(t, frame[t], "execute_command", "NotConnected", << >>)
     ELSE /\ pc' = [pc EXCEPT ![t] = "e_send"]
          /\ UNCHANGED << frame, lastDone >>
  /\ UNCHANGED << session, lock, handles, channel, calls >>
  /\ UNCHANGED applied

\* A with-block that does not wait for the lock.
LockIgnored == TRUE

\* The with-block of execute_command may be entered.
LockFree == lock = Unlocked

\* with self.lock: self._send_command_raw(command), i.e.
\* self.shell.send(command + '\n'); then _wait_for_output starts with
\* output = "" and start_time = last_data_time = now.  A send that raises
\* (or a missing shell) is logged and re-raised, the lock released.
execute_command_send(t) ==
  /\ pc[t] = "e_send"
  /\ LockFree
  /\ \/ /\ shell # NoHandle
        /\ lock' = t
        /\ wire' = Append(wire, Command(t) \o << "\n" >>)
        /\ \E r \in Responses(t) : pending' = pending \o r
        /\ pc' = [pc EXCEPT ![t] = "e_loop"]
        /\ UNCHANGED << frame, lastDone >>
     \/ /\ Return(t, [frame[t] EXCEPT !.how = "send_error"],
                  "execute_command", "error", << >>)
        /\ UNCHANGED << lock, wire, pending >>
  /\ UNCHANGED << session, handles, rx, calls >>
  /\ UNCHANGED applied

\* What execute_command does with the buffer _wait_for_output returns:
\* cleaned_output = self._clean_output(output, command); return cleaned_output
ExecuteReturn(t, f) ==
  /\ lock' = Unlocked
  /\ Return(t, f, "execute_command", "ok", CleanOutput(f.output, Command(t)))

\* An idle rule that does not look at the buffer.
SilentTooLong(f) == f.sinceData > IdleThreshold

\* if output and (time.time() - last_data_time) > 2: break
IdleElapsed(f) == f.output # << >> /\ f.sinceData > IdleThreshold

\* One pass of the while loop of _wait_for_output.
wait_for_output(t) ==
  /\ pc[t] = "e_loop"
  /\ IF frame[t].elapsed >= frame[t].timeout
     THEN \* the while condition fails: return output
          /\ ExecuteReturn(t, [frame[t] EXCEPT !.how = "timeout"])
          /\ rx' = rx
     ELSE IF shell = NoHandle
     THEN \* self.shell.recv_ready() on None, outside the inner try:
          \* execute_command logs and re-raises
          /\ lock' = Unlocked
          /\ Return(t, [frame[t] EXCEPT !.how = "recv_error"],
                    "execute_command", "error", << >>)
          /\ rx' = rx
     ELSE IF rx # << >>
     THEN \* data = self.shell.recv(4096).decode(...); output += data;
          \* last_data_time = time.time()  (the pass takes dt of time)
          \/ \E dt \in Ticks :
               LET f == [frame[t] EXCEPT !.output = @ \o rx,
                                         !.elapsed = @ + dt,
                                         !.sinceData = 0] IN
               /\ rx' = << >>
               /\ IF IsPromptReady(f.output, device_type)
                  THEN ExecuteReturn(t, [f EXCEPT !.how = "prompt"])
                  ELSE /\ frame' = [frame EXCEPT ![t] = f]
                       /\ UNCHANGED << pc, lock, lastDone >>
          \/ \* except Exception: logger.error(...); break
             /\ ExecuteReturn(t, [frame[t] EXCEPT !.how = "recv_error"])
             /\ rx' = rx
     ELSE \* time.sleep(0.1); idle check
          \E dt \in Ticks :
            LET f == [frame[t] EXCEPT !.elapsed = @ + dt, !.sinceData = @ + dt] IN
            /\ rx' = rx
            /\ IF IdleElapsed(f)
               THEN ExecuteReturn(t, [f EXCEPT !.how = "idle"])
               ELSE /\ frame' = [frame EXCEPT ![t] = f]
                    /\ UNCHANGED << pc, lock, lastDone >>
  /\ UNCHANGED << session, handles, pending, wire, calls >>
  /\ UNCHANGED applied

\* ------------------------------------------------------- specification

Next ==
  \/ DeviceEmit
  \/ \E t \in Threads :
       \/ connect(t)
       \/ connect_shell(t)
       \/ connect_banner(t)
       \/ disable_paging_send(t)
       \/ disable_paging_drain(t)
       \/ connect_except(t)
       \/ disconnect(t)
       \/ disconnect_client(t)
       \/ disconnect_flags(t)
       \/ execute_command(t)
       \/ execute_command_check_shell(t)
       \/ execute_command_send(t)
       \/ wait_for_output(t)

Spec == Init /\ [][Next]_vars

\* A pass of the read loop during which the clock advances, or its last:
\* the loop reads time.time() at every pass and sleeps between reads.
Tick(t) ==
  /\ wait_for_output(t)
  /\ pc'[t] # pc[t] \/ frame'[t].elapsed > frame[t].elapsed

\* A call in progress, outside the read loop, takes its next step.
Continue(t) ==
  \/ connect_shell(t)
  \/ connect_banner(t)
  \/ disable_paging_send(t)
  \/ disable_paging_drain(t)
  \/ connect_except(t)
  \/ disconnect_client(t)
  \/ disconnect_flags(t)
  \/ execute_command_check_shell(t)
  \/ execute_command_send(t)

\* The owner connects once ...
live_connect == calls = 0 /\ connect(Owner)

\* ... and then as many commands are run as there are threads, by either.
live_execute(t) == calls <= Cardinality(Threads) /\ execute_command(t)

NextLive ==
  \/ DeviceEmit
  \/ live_connect
  \/ \E t \in Threads : live_execute(t) \/ Continue(t) \/ wait_for_output(t)

\* Threads keep running and the clock keeps advancing; callers need not
\* call again and the device need not say anything.
SpecLive ==
  /\ Init
  /\ [][NextLive]_vars
  /\ \A t \in Threads : WF_vars(Continue(t) \/ Tick(t))

\* ------------------------------------------------- claims on the session

\* A thread is in flight from the send of its command to the end of its
\* read loop.
InFlight(t) == pc[t] = "e_loop"

\* The session is DISCONNECTED: no handles, not connected, no device type.
Disconnected ==
  /\ shell = NoHandle
  /\ client = NoHandle
  /\ connected = FALSE
  /\ device_type = None

\* C1: at most one execute_command is in flight on a session at any instant,
\* and the thread in flight is the one holding the session lock, so that a
\* second call sends its command only after the first call's read loop ended.
C1_OneCommandInFlight ==
  /\ Cardinality({t \in Threads : InFlight(t)}) <= 1
  /\ \A t \in Threads : InFlight(t) => lock = t

\* C1 witness: one thread is in its read loop while the other has passed the
\* connection check and waits to send.
C1_SecondCallWaits ==
  \E t, u \in Threads : InFlight(t) /\ pc[u] = "e_send"

\* C2: the string an execute_command returns holds no byte of the answer to
\* a command issued earlier by another call, whatever the chunking and timing.
C2_NoForeignOutput ==
  (lastDone.op = "execute_command" /\ lastDone.kind = "ok")
    => \A u \in Threads \ {lastDone.by} :
         ~Contains(lastDone.out, << Content(u) >>)

\* C3: an execute_command whose read loop ends because the timeout elapsed
\* fails with a timeout error and returns no string.
C3_TimeoutIsAnError ==
  (lastDone.op = "execute_command" /\ lastDone.how = "timeout")
    => lastDone.kind # "ok"

\* Thread t's execute_command has raised 'Not connected to device', having
\* sent nothing and changed nothing of the session.
Rejected(t) ==
  /\ lastDone'.op = "execute_command"
  /\ lastDone'.by = t
  /\ lastDone'.kind = "NotConnected"
  /\ pc'[t] = "idle"
  /\ UNCHANGED << session, lock, handles, channel >>

C5_SecondDisconnectIsNoOp ==
  (lastDone.op = "disconnect" /\ lastDone.after /\ pc[Owner] = "idle")
    => (lastDone.closes = 0 /\ Disconnected)

\* C6: after disconnect() returns the session is DISCONNECTED (connected
\* false, shell and client handles cleared), even when a close() raised.
C6_DisconnectAlwaysDisconnects ==
  (lastDone.op = "disconnect" /\ pc[Owner] = "idle") => Disconnected

\* The steps of connect whose failure reaches connect's exception handlers.
HandledSteps == {"open", "shell", "banner"}

IOErrors == {"send_error", "recv_error"}

\* C13: when the send or a receive of an execute_command fails with an I/O
\* error the session becomes DISCONNECTED: connected is false once that call
\* is over (so that later calls are rejected as not connected).
C13_IOErrorDisconnects ==
  (lastDone.op = "execute_command" /\ lastDone.how \in IOErrors
     /\ \A t \in Threads : pc[t] = "idle")
    => ~connected

\* C14: an I/O error raised by a receive in the read loop is raised to the
\* caller of execute_command, and no output string is returned.
C14_ReceiveErrorIsRaised ==
  (lastDone.op = "execute_command" /\ lastDone.how = "recv_error")
    => lastDone.kind = "error"

\* C31: no paramiko client or shell that a connect call created is dropped
\* without being closed: every handle opened so far has been closed or is
\* still the session's client or shell.
C31_NoHandleDropped ==
  \A h \in 1..opened : h \in closed \/ h = client \/ h = shell

\* No call is in progress on the session.
Quiescent == \A t \in Threads : pc[t] = "idle"

\* C30: whenever no call is in progress, a connected session has its shell,
\* its client and its device type set, and a session that is not connected
\* after a disconnect has all three cleared.
C30_SessionStateInvariant ==
  Quiescent =>
    /\ connected => (shell # NoHandle /\ client # NoHandle /\ device_type # None)
    /\ (~connected /\ lastDone.op = "disconnect")
         => (shell = NoHandle /\ client = NoHandle /\ device_type = None)

\* Thread t's execute_command leaves its send step.
Sends(t) == pc[t] = "e_send" /\ pc'[t] # "e_send"

\* C29: an execute_command that overlaps a disconnect never sends to, or
\* reads from, a shell that disconnect has closed or cleared: when the call
\* gets to its send the shell is set and open, and it stays so while the
\* call reads.
C29_NeverUsesClearedShell ==
  /\ [][\A t \in Threads : Sends(t) => (shell # NoHandle /\ shell \notin closed)]_vars
  /\ [](\A t \in Threads : pc[t] = "e_loop" => (shell # NoHandle /\ shell \notin closed))

\* A step of thread t's execute_command.
ExecuteStep(t) ==
  \/ execute_command(t)
  \/ execute_command_check_shell(t)
  \/ execute_command_send(t)
  \/ wait_for_output(t)

\* C23: no step of execute_command, whether the call completes, times out
\* or fails, changes the connected flag or the device type; the device type
\* is assigned only by connect's detection and cleared only by disconnect.
C23_ExecuteKeepsProfile ==
  [][/\ \A t \in Threads :
          ExecuteStep(t) => (connected' = connected /\ device_type' = device_type)
     /\ device_type' # device_type
          => \/ pc[Owner] = "c_banner" /\ device_type' \in Vendors
             \/ pc[Owner] = "d_flags" /\ device_type' = None
    ]_vars

\* C23 witness: a call on a session resolved to 'mikrotik' has ended by its
\* timeout, and the session is connected and 'mikrotik' as before.
C23_TimedOutStillConnected ==
  /\ lastDone.op = "execute_command"
  /\ lastDone.how = "timeout"
  /\ lastDone.kind = "ok"
  /\ connected
  /\ device_type = "mikrotik"
  /\ \A t \in Threads : pc[t] = "idle"

\* C22: no byte of the login banner or of the answer to the paging-disable
\* command is part of the output of a later execute_command.
C22_BannerAndPagingConsumed ==
  (lastDone.op = "execute_command" /\ lastDone.kind = "ok")
    => /\ ~Contains(lastDone.out, << "R", "o", "u", "t", "e", "r", "O", "S" >>)
       /\ ~Contains(lastDone.out, << "P" >>)

\* Thread t's read loop ends in this step.
LoopEnds(t) == pc[t] = "e_loop" /\ pc'[t] = "idle"

\* Thread t's read loop ends in this step without having read a byte: its
\* buffer was empty and the step took nothing from the channel.
EndsUnread(t) == LoopEnds(t) /\ frame[t].output = << >> /\ rx' = rx

\* The loop is never left running once the buffer is non-empty and the
\* silence has exceeded the idle threshold, and it ends by the idle rule
\* only with a non-empty buffer.
IdleRule ==
  /\ [](\A t \in Threads :
         pc[t] = "e_loop"
           => ~(frame[t].output # << >> /\ frame[t].sinceData > IdleThreshold))
  /\ [][\A t \in Threads :
         (LoopEnds(t) /\ lastDone'.how = "idle")
           => (frame[t].output # << >> /\ frame[t].sinceData >= IdleThreshold)]_vars

\* C21 as stated: the idle rule ends the loop once the buffer is non-empty
\* and the silence exceeds the threshold, never while the buffer is empty,
\* and a read that has received no byte ends only at the command timeout.
C21_EmptyReadEndsOnlyAtTimeout ==
  /\ IdleRule
  /\ [][\A t \in Threads : EndsUnread(t) => lastDone'.how = "timeout"]_vars

\* C21 amended: as stated, except that a read that has received no byte
\* ends at the command timeout or when a receive raises.
C21_IdleFallback ==
  /\ IdleRule
  /\ [][\A t \in Threads :
         EndsUnread(t) => lastDone'.how \in {"timeout", "recv_error"}]_vars

\* C21 witness: a call has ended by the idle rule, having returned text
\* that holds no prompt.
C21_EndedByIdle ==
  /\ lastDone.op = "execute_command"
  /\ lastDone.how = "idle"
  /\ lastDone.kind = "ok"
  /\ lastDone.out # << >>

\* Thread t is inside the with-block of execute_command or of disconnect.
InWithBlock(t) == pc[t] \in {"e_loop", "d_client", "d_flags"}

\* A handle is closed or cleared in this step.
Closing ==
  \/ closed' # closed
  \/ (shell # NoHandle /\ shell' = NoHandle)
  \/ (client # NoHandle /\ client' = NoHandle)

\* The lock l is free, or held by a thread that is, by p, inside disconnect.
HeldByDisconnect(l, p) == l = Unlocked \/ p[l] \in {"d_client", "d_flags"}

\* C18: disconnect closes under the session lock.  No handle is closed or
\* cleared while an execute_command is between its send and the end of its
\* read loop, so the shell of a command in flight is open; the lock is held
\* only by a thread inside execute_command or disconnect, hence free when
\* none is in progress, also after a close() that raised and after an
\* execute_command that raised.
C18_DisconnectUnderLock ==
  /\ [](\A t \in Threads : InFlight(t) => (shell # NoHandle /\ shell \notin closed))
  /\ [](lock # Unlocked => (lock \in Threads /\ InWithBlock(lock)))
  /\ []((\A t \in Threads : ~InWithBlock(t)) => lock = Unlocked)
  /\ [][Closing => /\ \A t \in Threads : ~InFlight(t)
                    /\ HeldByDisconnect(lock, pc)
                    /\ HeldByDisconnect(lock', pc')]_vars

\* C18 witness: a disconnect in which close() raised has returned, on a
\* session that commands had been sent on; no call is in progress and the
\* lock is free.
C18_LockFreeAfterCloseRaised ==
  /\ lastDone.op = "disconnect"
  /\ lastDone.closeRaised
  /\ wire # << >>
  /\ \A t \in Threads : pc[t] = "idle"
  /\ lock = Unlocked

\* Thread t is inside execute_command.
Executing(t) == pc[t] \in {"e_check_shell", "e_send", "e_loop"}

\* C15: every execute_command terminates, whatever the device does (says
\* nothing, keeps sending bytes without a prompt, or answers).
C15_ExecuteTerminates ==
  \A t \in Threads : Executing(t) ~> (pc[t] = "idle")

\* C15 witness: a call has ended by its timeout, with output but no prompt,
\* while the device was still sending.
C15_TimedOutWhileStreaming ==
  /\ lastDone.op = "execute_command"
  /\ lastDone.how = "timeout"
  /\ lastDone.kind = "ok"
  /\ connected
  /\ rx \o pending # << >>
  /\ \A t \in Threads : pc[t] = "idle"

\* ------------------------------------------- the text functions on their own

\* The strings over alphabet of length at most n.
Strings(alphabet, n) == UNION { [1..k -> alphabet] : k \in 0..n }

\* Nothing of the session moves while a text function is applied.
SessionIdle ==
  UNCHANGED << client, shell, connected, device_type, lock, opened, closed,
               rx, pending, wire, pc, frame, calls, lastDone >>

\* Longest buffer given to _is_prompt_ready.
MaxPromptLen == 3

\* Its characters: a letter, the prompt terminators, blank and newline.
PromptChars == {"x", "#", ">", "$", "%", "]", " ", "\n"}

\* A buffer and the device type of the session that checks it.
InitPrompt ==
  /\ SessionInit
  /\ arg \in { [ fn |-> "_is_prompt_ready", output |-> o, device_type |-> d ] :
                 o \in Strings(PromptChars, MaxPromptLen),
                 d \in Vendors \cup {None} }
  /\ ret = NoRet

\* self._is_prompt_ready(output)
is_prompt_ready ==
  /\ ~ret.done
  /\ ret' = [ done |-> TRUE,
              value |-> IsPromptReady(arg.output, arg.device_type) ]
  /\ arg' = arg
  /\ SessionIdle

NextPrompt == is_prompt_ready

SpecPrompt == InitPrompt /\ [][NextPrompt]_vars

\* The last line of the buffer that is not empty (the empty string when
\* every line is empty).
RECURSIVE LastNonEmpty(_)
LastNonEmpty(lines) ==
  IF lines = << >> THEN << >>
  ELSE IF lines[Len(lines)] # << >> THEN lines[Len(lines)]
  ELSE LastNonEmpty(SubSeq(lines, 1, Len(lines) - 1))

\* C8: the completion check returns true exactly when the last non-empty
\* line of the buffer ends in one of the suffixes registered for the
\* session's profile, the suffixes ending in a space included.
C8_PromptIffRegisteredSuffix ==
  ret.done =>
    LET patterns == PatternsFor(arg.device_type)
        line     == LastNonEmpty(SplitLines(arg.output))
    IN  ret.value = (\E j \in 1..Len(patterns) : EndsWith(line, patterns[j]))

\* Longest raw buffer given to _clean_output.
MaxCleanLen == 4

\* Its characters: the command's letter, another letter, a prompt
\* terminator, blank and newline.
CleanChars == {"c", "x", "#", " ", "\n"}

\* The command whose output is cleaned.
CleanCommand == << "c" >>

InitClean ==
  /\ SessionInit
  /\ arg \in { [ fn |-> "_clean_output", output |-> o, command |-> CleanCommand ] :
                 o \in Strings(CleanChars, MaxCleanLen) }
  /\ ret = NoRet

\* self._clean_output(output, command)
clean_output ==
  /\ ~ret.done
  /\ ret' = [ done |-> TRUE, value |-> CleanOutput(arg.output, arg.command) ]
  /\ arg' = arg
  /\ SessionIdle

NextClean == clean_output

SpecClean == InitClean /\ [][NextClean]_vars

\* The characters a prompt ends with.
PromptTerminators == {"#", ">", "$", "%", "]"}

\* A line that is certainly content: not empty, not ending as a prompt
\* does, and without the command in it.
ContentLine(line, command) ==
  /\ line # << >>
  /\ line[Len(line)] \notin PromptTerminators
  /\ ~Contains(line, command)

\* The content lines among lines, in order, each trimmed.
RECURSIVE ContentLines(_, _)
ContentLines(lines, command) ==
  IF lines = << >> THEN << >>
  ELSE LET line == Strip(Head(lines)) IN
       (IF ContentLine(line, command) THEN << line >> ELSE << >>)
         \o ContentLines(Tail(lines), command)

\* C9: cleaning removes only the echoed command, bare prompts and empty
\* lines, so every content line of the raw buffer is in the cleaned output,
\* in order.
C9_ContentLinesAreKept ==
  ret.done =>
    ContentLines(SplitLines(ret.value), arg.command)
      = ContentLines(SplitLines(arg.output), arg.command)

\* Words a login banner is made of: two product names, a fragment that is
\* also a marker of the first vendor of the chain, a vendor name and a
\* letter.
BannerWords ==
  { << >>,
    << "R", "o", "u", "t", "e", "r", "O", "S" >>,
    << "J", "U", "N", "O", "S" >>,
    << "i", "o", "s" >>,
    << "E", "l", "t", "e", "x" >>,
    << "x" >> }

\* The banners: one word, or two words with a blank between them.
DetectBanners ==
  BannerWords \cup { v \o << " " >> \o w : v, w \in BannerWords }

\* How many letters of a banner may change case before it is classified.
MaxCaseChanges == 2

\* The letter c in the other case.
SwapCase(c) ==
  IF c \in DOMAIN LowerOf THEN LowerOf[c]
  ELSE IF \E u \in DOMAIN LowerOf : LowerOf[u] = c
       THEN CHOOSE u \in DOMAIN LowerOf : LowerOf[u] = c
       ELSE c

InitDetect ==
  /\ SessionInit
  /\ arg \in { [ fn |-> "_detect_device_type", initial_output |-> b,
                 original |-> b, changes |-> 0 ] : b \in DetectBanners }
  /\ ret = NoRet

\* The device prints the same banner with one letter in the other case.
change_case ==
  /\ ~ret.done
  /\ arg.changes < MaxCaseChanges
  /\ \E i \in 1..Len(arg.initial_output) :
       /\ SwapCase(arg.initial_output[i]) # arg.initial_output[i]
       /\ arg' = [arg EXCEPT
                    !.initial_output = [@ EXCEPT ![i] = SwapCase(@)],
                    !.changes = @ + 1]
  /\ ret' = ret
  /\ SessionIdle

\* self._detect_device_type(initial_output)
detect_device_type ==
  /\ ~ret.done
  /\ ret' = [ done |-> TRUE, value |-> DetectDeviceType(arg.initial_output) ]
  /\ arg' = arg
  /\ SessionIdle

NextDetect == change_case \/ detect_device_type

SpecDetect == InitDetect /\ [][NextDetect]_vars

\* word occurs in banner, letter case ignored.
Mentions(banner, word) == Contains(Lower(banner), Lower(word))

\* A marker of a vendor that _detect_device_type tests before vendor occurs
\* in banner, letter case ignored.
MentionsEarlierVendor(banner, vendor) ==
  \E k \in 1..Len(DetectionPatterns) :
    /\ \E m \in k..Len(DetectionPatterns) : DetectionPatterns[m].vendor = vendor
    /\ DetectionPatterns[k].vendor # vendor
    /\ \E j \in 1..Len(DetectionPatterns[k].patterns) :
         Mentions(banner, DetectionPatterns[k].patterns[j])

RouterOS == << "R", "o", "u", "t", "e", "r", "O", "S" >>
JUNOS == << "J", "U", "N", "O", "S" >>

\* C10 as stated: a banner containing 'RouterOS' is 'mikrotik', one
\* containing 'JUNOS' is 'juniper', the empty banner is 'generic', in
\* whatever letter case, and a change of letter case never changes the
\* classification.
C10_SubstringClassifies ==
  ret.done =>
    /\ Mentions(arg.original, RouterOS) => ret.value = "mikrotik"
    /\ Mentions(arg.original, JUNOS) => ret.value = "juniper"
    /\ arg.original = << >> => ret.value = "generic"
    /\ ret.value = DetectDeviceType(arg.original)

\* C10 amended: a banner containing 'RouterOS' is 'mikrotik' and one
\* containing 'JUNOS' is 'juniper' when it contains no marker of a vendor
\* tested earlier in the chain, the empty banner is 'generic', in whatever
\* case the letters are, and a change of letter case never changes
\* the classification.
C10_FirstMatchClassifies ==
  ret.done =>
    /\ (Mentions(arg.original, RouterOS)
          /\ ~MentionsEarlierVendor(arg.original, "mikrotik"))
         => ret.value = "mikrotik"
    /\ (Mentions(arg.original, JUNOS)
          /\ ~MentionsEarlierVendor(arg.original, "juniper"))
         => ret.value = "juniper"
    /\ arg.original = << >> => ret.value = "generic"
    /\ ret.value = DetectDeviceType(arg.original)

\* C10 witness: a banner naming RouterOS, two of its letters changed in
\* case, has been classified as 'mikrotik'.
C10_RecasedRouterOS ==
  /\ ret.done
  /\ ret.value = "mikrotik"
  /\ arg.changes = MaxCaseChanges
  /\ ~Contains(arg.initial_output, RouterOS)
  /\ Mentions(arg.original, RouterOS)

\* ---------------------------------------------------- macro execution

\* The front ends that execute a macro on a session: the web application,
\* the Flet window (main.py) and the Tk window (gui/main_window.py).
Fronts == {"web_app", "main", "main_window"}

\* The commands of macros, each a distinct letter.
MacroLetters == << "a", "b", "c", "d", "e" >>

\* macro['commands']: as many commands as the call budget leaves after the
\* connect.
MacroCommands == [k \in 1..(MaxCalls - 1) |-> << MacroLetters[k] >>]

\* A session after construction and a macro to run on it from a front end.
InitMacro ==
  /\ SessionInit
  /\ arg \in { [ fn |-> "execute_macro", front |-> f,
                 commands |-> MacroCommands ] : f \in Fronts }
  /\ ret = [ done |-> FALSE, started |-> FALSE, results |-> << >>,
             error |-> FALSE ]

\* The front end connects the session (the macro's caller does so once).
macro_connect ==
  /\ calls = 0
  /\ connect(Owner)

\* execute_macro finds the session connected and enters its loop.
execute_macro ==
  /\ ~ret.started
  /\ pc[Owner] = "idle"
  /\ connected
  /\ ret' = [ret EXCEPT !.started = TRUE]
  /\ arg' = arg
  /\ SessionIdle

\* execute_command calls begun by the macro (every call but the connect).
MacroCalls == calls - 1

\* for command in macro['commands']: ssh_client.execute_command(command)
macro_command ==
  /\ ret.started
  /\ ~ret.done
  /\ MacroCalls = Len(ret.results)
  /\ execute_command(Owner)

\* The call has returned or raised.  web_app appends an entry either way and
\* goes on; in main and main_window the try block is around the whole loop,
\* so an exception ends the macro with one error message.
macro_result ==
  /\ ret.started
  /\ ~ret.done
  /\ pc[Owner] = "idle"
  /\ MacroCalls = Len(ret.results) + 1
  /\ LET ok    == lastDone.kind = "ok"
         entry == [ command |-> arg.commands[MacroIndex], success |-> ok,
                    result |-> lastDone.out ]
     IN  ret' = IF ok \/ arg.front = "web_app"
                THEN [ret EXCEPT !.results = Append(@, entry),
                                 !.done = (MacroIndex = Len(arg.commands))]
                ELSE [ret EXCEPT !.done = TRUE, !.error = TRUE]
  /\ arg' = arg
  /\ SessionIdle

NextMacro ==
  \/ DeviceEmit
  \/ macro_connect
  \/ connect_shell(Owner)
  \/ connect_banner(Owner)
  \/ disable_paging_send(Owner)
  \/ disable_paging_drain(Owner)
  \/ connect_except(Owner)
  \/ disconnect_client(Owner)
  \/ disconnect_flags(Owner)
  \/ execute_macro
  \/ macro_command
  \/ execute_command_check_shell(Owner)
  \/ execute_command_send(Owner)
  \/ wait_for_output(Owner)
  \/ macro_result

SpecMacro == InitMacro /\ [][NextMacro]_vars

\* What the session sends for the macro's k-th command.
MacroLine(k) == arg.commands[k] \o << "\n" >>

\* The macro's k-th command has been sent.
MacroSent(k) == \E i \in 1..Len(wire) : wire[i] = MacroLine(k)

\* C11: a macro's commands are sent in list order, command k+1 only after
\* the call for command k has come back, and the command in flight is the
\* one sent last.
C11_MacroInOrder ==
  LET n == Len(arg.commands) IN
  /\ \A i, j \in 1..Len(wire) : \A a, b \in 1..n :
       (i < j /\ wire[i] = MacroLine(a) /\ wire[j] = MacroLine(b)) => a < b
  /\ \A b \in 1..n : MacroSent(b) => Len(ret.results) >= b - 1
  /\ InFlight(Owner) => wire[Len(wire)] = MacroLine(MacroIndex)

\* C11 witness: the macro has finished and every one of its commands was
\* sent.
C11_WholeMacroSent ==
  /\ ret.done
  /\ Len(ret.results) = Len(arg.commands)
  /\ \A k \in 1..Len(arg.commands) : MacroSent(k)

\* C12: a finished macro of n commands has n entries, one per command in
\* order, whatever the outcome of each command.
C12_AllCommandsAttempted ==
  (ret.started /\ ret.done)
    => /\ Len(ret.results) = Len(arg.commands)
       /\ \A k \in 1..Len(ret.results) :
            ret.results[k].command = arg.commands[k]

\* ------------------------------------------------------ device profiles

\* Every marker of the detection chain.
Markers ==
  UNION { { DetectionPatterns[k].patterns[j] :
              j \in 1..Len(DetectionPatterns[k].patterns) } :
          k \in 1..Len(DetectionPatterns) }

\* The banners a profile is resolved from: exactly one marker, nothing, or
\* text that names no vendor.
ProfileBanners == Markers \cup { << >>, << "x" >> }

\* The three lookups made with self.device_type as the key.
Lookups == {"paging", "prompt", "version"}

NotLooked == [l \in Lookups |-> [done |-> FALSE]]

InitProfile ==
  /\ SessionInit
  /\ arg \in { [ fn |-> "profile", initial_output |-> b ] : b \in ProfileBanners }
  /\ ret = [ done |-> FALSE, looked |-> NotLooked ]

\* self.device_type = self._detect_device_type(initial_output)
resolve_profile ==
  /\ ~ret.done
  /\ device_type' = DetectDeviceType(arg.initial_output)
  /\ ret' = [ret EXCEPT !.done = TRUE]
  /\ arg' = arg
  /\ UNCHANGED << client, shell, connected, lock, handles, channel, pc, frame,
                  calls, lastDone >>

\* What the lookup l yields for the key dtype.
Lookup(l, dtype) ==
  IF l = "paging" THEN PagingCommand(dtype)
  ELSE IF l = "prompt" THEN PatternsFor(dtype)
  ELSE VersionCommand(dtype)

\* One of the lookups is made with the device_type of the moment, which is
\* None until a profile has been resolved.
lookup(l) ==
  /\ ~ret.looked[l].done
  /\ ret' = [ret EXCEPT !.looked[l] =
               [ done |-> TRUE, key |-> device_type, entry |-> Lookup(l, device_type) ]]
  /\ arg' = arg
  /\ SessionIdle

NextProfile == resolve_profile \/ \E l \in Lookups : lookup(l)

SpecProfile == InitProfile /\ [][NextProfile]_vars

\* The table behind each lookup.
TableOf(l) ==
  IF l = "paging" THEN paging_commands
  ELSE IF l = "prompt" THEN prompt_patterns
  ELSE version_commands

\* C16: profile lookup is total.  Detection of any banner yields a key that
\* every table has; and each lookup, made with such a key or with the unset
\* device type, yields a non-empty entry: the key's own when the table has
\* the key, the one of 'generic' otherwise.
C16_LookupIsTotal ==
  /\ ret.done => \A l \in Lookups : device_type \in DOMAIN TableOf(l)
  /\ \A l \in Lookups :
       ret.looked[l].done =>
         LET key == ret.looked[l].key
             own == IF key \in DOMAIN TableOf(l) THEN key ELSE "generic"
         IN  /\ "generic" \in DOMAIN TableOf(l)
             /\ ret.looked[l].entry = TableOf(l)[own]
             /\ ret.looked[l].entry # << >>

\* C16 witness: a banner has resolved to a vendor's profile, and all three
\* lookups have been made, one before any profile was resolved and one with
\* the resolved vendor as the key.
C16_LookedUpSetAndUnset ==
  /\ ret.done
  /\ device_type \notin {None, "generic"}
  /\ \A l \in Lookups : ret.looked[l].done
  /\ \E l \in Lookups : ret.looked[l].key = None
  /\ \E l \in Lookups : ret.looked[l].key = device_type

\* C20: a banner that is exactly one of a vendor's markers classifies as
\* that vendor.
C20_OwnMarkerClassifies ==
  ret.done =>
    \A k \in 1..Len(DetectionPatterns) :
      (\E j \in 1..Len(DetectionPatterns[k].patterns) :
         arg.initial_output = DetectionPatterns[k].patterns[j])
        => device_type = DetectionPatterns[k].vendor

\* --------------------------------------------------- connect on its own

\* The owner connects, and connects again, to devices of every vendor of the
\* detection chain.
InitConnect ==
  /\ SessionInit
  /\ arg = [ fn |-> "connect" ]
  /\ ret = NoRet

NextConnect ==
  \/ DeviceEmit
  \/ connect(Owner)
  \/ connect_shell(Owner)
  \/ connect_banner(Owner)
  \/ disable_paging_send(Owner)
  \/ disable_paging_drain(Owner)
  \/ connect_except(Owner)
  \/ disconnect_client(Owner)
  \/ disconnect_flags(Owner)

SpecConnect == InitConnect /\ [][NextConnect]_vars

\* The last connect has returned True and nothing has been called since.
ConnectSucceeded ==
  /\ lastDone.op = "connect"
  /\ lastDone.kind = "True"
  /\ pc[Owner] = "idle"

\* The lines of the paging-disable command of FortiGate, as listed.
FortinetPaging ==
  << <<"c", "o", "n", "f", "i", "g", " ", "s", "y", "s", "t", "e", "m", " ", "c", "o", "n", "s", "o", "l", "e">>,
     <<"s", "e", "t", " ", "o", "u", "t", "p", "u", "t", " ", "s", "t", "a", "n", "d", "a", "r", "d">>,
     <<"e", "n", "d">> >>

\* What a device of type dtype is to receive to have its paging disabled:
\* each listed command, with its newline.
ListedPaging(dtype) ==
  IF dtype = "fortinet"
  THEN [i \in 1..Len(FortinetPaging) |-> FortinetPaging[i] \o << "\n" >>]
  ELSE << paging_commands[dtype] \o << "\n" >> >>

\* C17 as stated: for every resolved profile, a connect that has set
\* connected has sent the profile's paging-disable commands, all of them
\* and in their listed order.
C17_EveryProfileSendsPaging ==
  ConnectSucceeded => wire = ListedPaging(device_type)

\* pre is a proper prefix of full.
ProperPrefix(pre, full) ==
  /\ Len(pre) < Len(full)
  /\ pre = SubSeq(full, 1, Len(pre))

\* C17 amended: nothing is sent before detection has finished; connected
\* becomes true only as the last step of a connect, after the detection and
\* the paging-disable step of that connect; and by then the device has been
\* sent the listed paging-disable commands of the resolved profile, in
\* order - except that a MikroTik device is sent nothing, and that when a
\* send fails only the commands before it were sent and connect succeeds
\* all the same.
C17_PagingBeforeConnected ==
  /\ [](pc[Owner] = "c_banner" => wire = << >>)
  /\ [](ConnectSucceeded =>
          /\ connected
          /\ device_type \in Vendors
          /\ IF lastDone.how = "paging"
             THEN ProperPrefix(wire, ListedPaging(device_type))
             ELSE IF device_type = "mikrotik" THEN wire = << >>
             ELSE wire = ListedPaging(device_type))
  /\ [][(connected' /\ ~connected)
          => /\ pc[Owner] \in {"c_paging", "c_drain"}
             /\ pc'[Owner] = "idle"
             /\ device_type \in Vendors
             /\ device_type' = device_type]_vars

\* C17 witness: a connect to a FortiGate has succeeded, the three commands
\* of its profile having been sent one by one.
C17_FortinetPagingSent ==
  /\ ConnectSucceeded
  /\ lastDone.how = "none"
  /\ device_type = "fortinet"
  /\ wire = ListedPaging("fortinet")
  /\ Len(wire) = Len(FortinetPaging)

\* ------------------------------------------------- the context manager

\* with SSHClient() as client:  (__enter__ returns the new session)
InitWith ==
  /\ SessionInit
  /\ arg = [ fn |-> "with" ]
  /\ ret = NoRet

\* __exit__ has run: its disconnect() has returned.
Exited == lastDone.op = "disconnect"

\* A statement of the block's body: client.connect(...)
with_connect == ~Exited /\ connect(Owner)

\* A statement of the block's body: client.execute_command(...)
with_execute_command == ~Exited /\ execute_command(Owner)

\* __exit__: the body has returned, or a call of it has raised;
\* self.disconnect()
exit == ~Exited /\ disconnect(Owner)

NextWith ==
  \/ DeviceEmit
  \/ with_connect
  \/ connect_shell(Owner)
  \/ connect_banner(Owner)
  \/ disable_paging_send(Owner)
  \/ disable_paging_drain(Owner)
  \/ connect_except(Owner)
  \/ with_execute_command
  \/ execute_command_check_shell(Owner)
  \/ execute_command_send(Owner)
  \/ wait_for_output(Owner)
  \/ exit
  \/ disconnect_client(Owner)
  \/ disconnect_flags(Owner)

SpecWith == InitWith /\ [][NextWith]_vars

\* C19: once a with-block has been left, whether its body returned or
\* raised, the session is DISCONNECTED and every shell and client opened
\* inside the block has been closed.
C19_WithBlockDisconnects ==
  (Exited /\ pc[Owner] = "idle")
    => (Disconnected /\ closed = 1..opened)

\* --------------------------------------- the Telnet and serial transports

\* Calls made on one TelnetClient or SerialClient.
MaxTransportCalls == 3

\* TelnetClient (src/core/telnet_client.py) and SerialClient
\* (src/core/serial_client.py).
Transports == {"telnet", "serial"}

NoTransportCall ==
  [ op |-> "none", by |-> "nobody", kind |-> "none", how |-> "none", out |-> "none" ]

\* __init__: self.connection = None; self.is_connected = False.  made: the
\* connection objects constructed so far; open: those that are open; pc:
\* where each thread is in its call; pending, rx: the answers the device
\* owes and those that have arrived, each named by the thread whose command
\* it answers; reading: the threads in their read when the last command was
\* written.
InitTransport ==
  /\ SessionInit
  /\ arg \in { [ fn |-> "transport", kind |-> k ] : k \in Transports }
  /\ ret = [ connection |-> NoHandle, is_connected |-> FALSE, made |-> 0,
             open |-> {}, pc |-> [ t \in Threads |-> "idle" ],
             pending |-> << >>, rx |-> << >>, calls |-> 0,
             last |-> NoTransportCall ]

\* Thread t may enter a call on the transport client.
TransportCanBegin(t) == ret.pc[t] = "idle" /\ ret.calls < MaxTransportCalls

\* Thread t's call returns (kind: what it returned or raised; how: where it
\* left its normal path; out: whose answer it returned).
TransportReturn(r, t, op, kind, how, out) ==
  [ r EXCEPT !.pc[t] = "idle",
             !.last = [ op |-> op, by |-> t, kind |-> kind, how |-> how, out |-> out ] ]

\* The transport client's state is the only thing that moves.
TransportStep(r) ==
  /\ ret' = r
  /\ arg' = arg
  /\ SessionIdle

\* The states disconnect() can leave: close() raised and the handler only
\* logs, or the handle is closed and every field is cleared.
\* (SerialClient closes only a connection that is open.)
TransportDisconnected(r) ==
  LET cleared == [ r EXCEPT !.is_connected = FALSE, !.connection = NoHandle ] IN
  IF r.connection = NoHandle \/ (arg.kind = "serial" /\ r.connection \notin r.open)
  THEN { cleared }
  ELSE { r, [ cleared EXCEPT !.open = @ \ {r.connection}, !.pending = << >>, !.rx = << >> ] }

\* The device delivers the next answer it owes.
TransportEmit ==
  /\ ret.pending # << >>
  /\ TransportStep([ ret EXCEPT !.rx = Append(@, Head(ret.pending)),
                                !.pending = Tail(@) ])

\* connect: self.connection = telnetlib.Telnet(...) / serial.Serial(...);
\* the constructor raises (the handler returns False), or yields a
\* connection; a serial one may not be open (connect returns False), and
\* an open one sets is_connected before the wake-up write.
transport_connect(t) ==
  /\ t = Owner
  /\ TransportCanBegin(t)
  /\ LET r == [ ret EXCEPT !.calls = @ + 1 ]
         h == ret.made + 1
         made == [ r EXCEPT !.made = h, !.connection = h ] IN
     \/ TransportStep(TransportReturn(r, t, "connect", "False", "open", "none"))
     \/ /\ arg.kind = "telnet"
        /\ TransportStep([ made EXCEPT !.open = @ \cup {h}, !.pc[t] = "c_login" ])
     \/ /\ arg.kind = "serial"
        /\ \/ TransportStep([ made EXCEPT !.open = @ \cup {h}, !.is_connected = TRUE,
                                          !.pc[t] = "c_wake" ])
           \/ TransportStep(TransportReturn(made, t, "connect", "False", "not_open", "none"))

\* TelnetClient.connect: the Username: and Password: exchanges; one of them
\* raises (except Exception: ...; return False), or they go through.
telnet_login(t) ==
  /\ ret.pc[t] = "c_login"
  /\ \/ TransportStep(TransportReturn(ret, t, "connect", "False", "login", "none"))
     \/ TransportStep([ ret EXCEPT !.pc[t] = "c_prompt" ])

\* TelnetClient.connect: result = read_until(b"#", timeout) raises; or
\* b"#" is in it (is_connected = True; return True); or it is not
\* (self.disconnect(); return False).
telnet_prompt(t) ==
  /\ ret.pc[t] = "c_prompt"
  /\ \/ TransportStep(TransportReturn(ret, t, "connect", "False", "prompt_raised", "none"))
     \/ TransportStep(TransportReturn([ ret EXCEPT !.is_connected = TRUE ],
                                      t, "connect", "True", "none", "none"))
     \/ \E r \in TransportDisconnected(ret) :
          TransportStep(TransportReturn(r, t, "connect", "False", "no_prompt", "none"))

\* SerialClient.connect: self.connection.write(b'\r\n') raises (return
\* False), or time.sleep(0.5); return True.
serial_wake(t) ==
  /\ ret.pc[t] = "c_wake"
  /\ \/ TransportStep(TransportReturn(ret, t, "connect", "False", "wake", "none"))
     \/ TransportStep(TransportReturn(ret, t, "connect", "True", "none", "none"))

\* disconnect()
transport_disconnect(t) ==
  /\ t = Owner
  /\ TransportCanBegin(t)
  /\ \E r \in TransportDisconnected([ ret EXCEPT !.calls = @ + 1 ]) :
       TransportStep(TransportReturn(r, t, "disconnect", "None", "none", "none"))

\* execute_command: if not self.is_connected or not self.connection:
\*                      raise Exception("Not connected to device")
transport_execute_command(t) ==
  /\ TransportCanBegin(t)
  /\ LET r == [ ret EXCEPT !.calls = @ + 1 ] IN
     IF ~ret.is_connected \/ ret.connection = NoHandle
     THEN TransportStep(TransportReturn(r, t, "execute_command", "NotConnected", "none", "none"))
     ELSE TransportStep([ r EXCEPT !.pc[t] = "x_write" ])

\* The input that is left for a command written now: SerialClient calls
\* self.connection.reset_input_buffer() first, TelnetClient does not.
InputAtWrite(input) == IF arg.kind = "serial" THEN << >> ELSE input

\* self.connection.write(command ...): it raises (the connection is None or
\* closed, or the write fails), or the command is on the wire and the
\* device owes its answer.
transport_write(t) ==
  /\ ret.pc[t] = "x_write"
  /\ \/ TransportStep(TransportReturn(ret, t, "execute_command", "error", "write", "none"))
     \/ /\ ret.connection \in ret.open
        /\ TransportStep([ ret EXCEPT !.rx = InputAtWrite(@),
                                      !.pending = Append(@, t),
                                      !.pc[t] = "x_read" ])

\* read_until(b"#", timeout) / _receive_output(timeout): it raises on a
\* missing connection; it returns the first answer that has arrived, up to
\* its prompt; or the timeout passes and it returns what little it has.
transport_read(t) ==
  /\ ret.pc[t] = "x_read"
  /\ IF ret.connection \notin ret.open
     THEN TransportStep(TransportReturn(ret, t, "execute_command", "error", "read", "none"))
     ELSE IF ret.rx # << >>
     THEN TransportStep(TransportReturn([ ret EXCEPT !.rx = Tail(@) ], t,
                                        "execute_command", "ok", "prompt", Head(ret.rx)))
     ELSE TransportStep(TransportReturn(ret, t, "execute_command", "ok", "timeout", "none"))

NextTransport ==
  \/ TransportEmit
  \/ \E t \in Threads :
       \/ transport_connect(t)
       \/ telnet_login(t)
       \/ telnet_prompt(t)
       \/ serial_wake(t)
       \/ transport_disconnect(t)
       \/ transport_execute_command(t)
       \/ transport_write(t)
       \/ transport_read(t)

SpecTransport == InitTransport /\ [][NextTransport]_vars

\* Thread t writes its command in this step.
TransportWrites(t) == ret.pc[t] = "x_write" /\ ret'.pc[t] = "x_read"

\* C24: of two concurrent execute_command calls on one TelnetClient or
\* SerialClient, the second writes its command only after the first has
\* finished reading its response: no command is written while another
\* thread is between its write and the end of its read.
C24_TransportSerializes ==
  [][\A t \in Threads :
       TransportWrites(t) => \A u \in Threads \ {t} : ret.pc[u] # "x_read"]_vars

\* C25: after a connect that failed once the transport had been opened (a
\* step raised, or the prompt or port check failed) and with no call in
\* progress, the client holds no open connection and is_connected is false.
C25_FailedConnectLeavesNothingOpen ==
  ( /\ ret.last.op = "connect"
    /\ ret.last.kind = "False"
    /\ ret.last.how # "open"
    /\ \A t \in Threads : ret.pc[t] = "idle" )
    => (~ret.is_connected /\ ret.connection \notin ret.open)

\* ------------------------------------------------------ the cache manager

\* Calls made on one CacheManager, the latest reading of the clock and the
\* longest time-to-live given to set.
MaxCacheCalls == 4
MaxNow == 3
MaxTTL == 2

CacheKeys == {"k1", "k2"}
CacheValues == {"a", "b"}

\* The ttl argument of set: a number of seconds, or None (not given).
TTLs == { [ given |-> FALSE ] } \cup { [ given |-> TRUE, seconds |-> n ] : n \in 0..MaxTTL }

\* self.default_ttl, on the scale of the model's clock.
default_ttl == MaxTTL

\* A key that is not in self.cache; a set that has not been called.
Absent == [ there |-> FALSE ]
NoSet == [ pending |-> FALSE ]

NoCacheCall == [ op |-> "none" ]

\* __init__: self.cache = {}.  now: datetime.now(); setting: a set that has
\* computed its expiry_time and has not stored yet; latest: for each key,
\* what the most recent completed set stored and whether a delete or clear
\* has come since; hit: some get has returned a value.
InitCache ==
  /\ SessionInit
  /\ arg = [ fn |-> "cache" ]
  /\ ret = [ cache |-> [ k \in CacheKeys |-> Absent ], now |-> 0,
             setting |-> NoSet, calls |-> 0,
             latest |-> [ k \in CacheKeys |-> Absent ],
             hit |-> FALSE, last |-> NoCacheCall ]

CacheStep(r) ==
  /\ ret' = r
  /\ arg' = arg
  /\ SessionIdle

CacheCanBegin == ret.calls < MaxCacheCalls

\* Time passes.
CacheTick ==
  /\ ret.now < MaxNow
  /\ CacheStep([ ret EXCEPT !.now = @ + 1 ])

\* An expiry test that lets the entry live through its expiry time.
FreshInclusive(now, expiry_time) == now <= expiry_time

\* if datetime.now() < expiry_time
Fresh(now, expiry_time) == now < expiry_time

\* What get(key) is to return by the history of the key: the value of the
\* most recent set, if the clock is before its expiry and no delete or
\* clear has come since; None otherwise.
Expected(r, key) ==
  LET e == r.latest[key] IN
  IF e.there /\ r.now < e.expiry_time THEN e.value ELSE None

\* get(key)
cache_get(key) ==
  /\ CacheCanBegin
  /\ LET e == ret.cache[key]
         r == [ ret EXCEPT !.calls = @ + 1 ] IN
     IF e.there /\ Fresh(ret.now, e.expiry_time)
     THEN CacheStep([ r EXCEPT !.hit = TRUE,
                               !.last = [ op |-> "get", key |-> key, out |-> e.value,
                                          want |-> Expected(ret, key),
                                          expired |-> FALSE ] ])
     ELSE \* del self.cache[key] if it was there; return None
          CacheStep([ r EXCEPT !.cache[key] = Absent,
                               !.last = [ op |-> "get", key |-> key, out |-> None,
                                          want |-> Expected(ret, key),
                                          expired |-> e.there ] ])

\* set(key, value, ttl), up to the lock:
\* if ttl is None: ttl = self.default_ttl
\* expiry_time = datetime.now() + timedelta(seconds=ttl)
cache_set(key, value, ttl) ==
  /\ CacheCanBegin
  /\ ~ret.setting.pending
  /\ LET seconds == IF ttl.given THEN ttl.seconds ELSE default_ttl IN
     CacheStep([ ret EXCEPT !.calls = @ + 1,
                            !.setting = [ pending |-> TRUE, key |-> key, value |-> value,
                                          expiry_time |-> ret.now + seconds ] ])

\* with self.lock: self.cache[key] = (value, expiry_time)
cache_set_store ==
  /\ ret.setting.pending
  /\ LET e == [ there |-> TRUE, value |-> ret.setting.value,
                expiry_time |-> ret.setting.expiry_time ] IN
     CacheStep([ ret EXCEPT !.cache[ret.setting.key] = e,
                            !.latest[ret.setting.key] = e,
                            !.setting = NoSet,
                            !.last = [ op |-> "set", key |-> ret.setting.key ] ])

\* delete(key)
cache_delete(key) ==
  /\ CacheCanBegin
  /\ CacheStep([ ret EXCEPT !.calls = @ + 1,
                            !.cache[key] = Absent,
                            !.latest[key] = Absent,
                            !.last = [ op |-> "delete", key |-> key,
                                       out |-> ret.cache[key].there ] ])

\* clear()
cache_clear ==
  /\ CacheCanBegin
  /\ CacheStep([ ret EXCEPT !.calls = @ + 1,
                            !.cache = [ k \in CacheKeys |-> Absent ],
                            !.latest = [ k \in CacheKeys |-> Absent ],
                            !.last = [ op |-> "clear" ] ])

\* The keys cleanup_expired collects: if current_time >= expiry_time
ExpiredKeys(r) ==
  { k \in CacheKeys : r.cache[k].there /\ r.now >= r.cache[k].expiry_time }

\* cleanup_expired()
cleanup_expired ==
  /\ CacheCanBegin
  /\ CacheStep([ ret EXCEPT !.calls = @ + 1,
                            !.cache = [ k \in CacheKeys |->
                                          IF k \in ExpiredKeys(ret) THEN Absent ELSE @[k] ],
                            !.last = [ op |-> "cleanup_expired",
                                       out |-> Cardinality(ExpiredKeys(ret)) ] ])

NextCache ==
  \/ CacheTick
  \/ \E key \in CacheKeys :
       \/ cache_get(key)
       \/ \E value \in CacheValues, ttl \in TTLs : cache_set(key, value, ttl)
       \/ cache_delete(key)
  \/ cache_set_store
  \/ cache_clear
  \/ cleanup_expired

SpecCache == InitCache /\ [][NextCache]_vars

\* C26: get(key) returns the value of the most recent set(key, ...) exactly
\* when that entry has not expired and has not been deleted or cleared
\* since, and None in every other case; a get that finds an expired entry
\* removes it, and no entry that is kept is left for a later get to return
\* against the key's history.
C26_GetReturnsLatestLiveValue ==
  /\ ret.last.op = "get" => ret.last.out = ret.last.want
  /\ (ret.last.op = "get" /\ ret.last.expired) => ~ret.cache[ret.last.key].there
  /\ \A k \in CacheKeys :
       (ret.cache[k].there /\ Fresh(ret.now, ret.cache[k].expiry_time))
         => ret.cache[k] = ret.latest[k]

\* C26 witness: a get has returned a stored value, and the last get found
\* its entry expired and returned None.
C26_HitThenExpired ==
  /\ ret.hit
  /\ ret.last.op = "get"
  /\ ret.last.expired
  /\ ret.last.out = None

\* ------------------------------------------------------ the macro manager

\* Calls made on one MacroManager.
MaxManagerCalls == 3

MacroNames == {"m1", "m2"}
Descriptions == { << "d1" >>, << "d2" >> }
CommandLists == { << "show version" >>, << "show clock", "show users" >> }

\* A name that is not a key of self.macros.
NoMacro == [ there |-> FALSE ]

\* The value create_macro stores under a name.
NewMacro(name, description, commands, author) ==
  [ there |-> TRUE, name |-> name, description |-> description,
    commands |-> commands, author |-> author, modified |-> FALSE ]

\* What load_macros leaves in self.macros: the file's macros or the defaults.
LoadedMacros ==
  { [ n \in MacroNames |-> NoMacro ],
    [ n \in MacroNames |->
        IF n = "m1" THEN NewMacro("m1", << "d1" >>, << "show version" >>, "system")
        ELSE NoMacro ] }

\* The files given to import_macro: each maps names to macro data.
ImportFiles ==
  { [ n \in MacroNames |->
        IF n \in names THEN NewMacro(n, << "imported" >>, << "show users" >>, "other")
        ELSE NoMacro ] : names \in (SUBSET MacroNames) \ {{}} }

NoManagerCall == [ op |-> "none" ]

\* __init__: self.macros = {}; self.load_macros().  saved: the macros in the
\* file of macros_file.
InitManager ==
  /\ SessionInit
  /\ arg = [ fn |-> "macros" ]
  /\ \E loaded \in LoadedMacros :
       ret = [ macros |-> loaded, saved |-> loaded, calls |-> 0,
               last |-> NoManagerCall ]

ManagerCanBegin == ret.calls < MaxManagerCalls

\* The manager's call returns: self.macros is macros, the file is written
\* by save_macros (which only logs when it fails) if save is set.
ManagerReturn(macros, save, last) ==
  /\ \E written \in (IF save THEN { macros, ret.saved } ELSE { ret.saved }) :
       ret' = [ ret EXCEPT !.macros = macros, !.saved = written,
                           !.calls = @ + 1, !.last = last ]
  /\ arg' = arg
  /\ SessionIdle

\* A test of the name that never finds it.
NameNeverTaken(macros, name) == FALSE

\* name in self.macros
NameTaken(macros, name) == macros[name].there

\* create_macro(name, description, commands, author)
CreateMacro(op, args, name, description, commands, author) ==
  IF NameTaken(ret.macros, name)
  THEN ManagerReturn(ret.macros, FALSE, [ op |-> op, args |-> args, out |-> FALSE ])
  ELSE ManagerReturn([ ret.macros EXCEPT ![name] = NewMacro(name, description, commands, author) ],
                     TRUE, [ op |-> op, args |-> args, out |-> TRUE ])

create_macro(name, description, commands) ==
  /\ ManagerCanBegin
  /\ CreateMacro("create_macro", [ name |-> name, description |-> description ],
                 name, description, commands, "user")

\* update_macro(name, description, commands)
update_macro(name, description, commands) ==
  /\ ManagerCanBegin
  /\ LET last == [ op |-> "update_macro", args |-> [ name |-> name ] ] IN
     IF ~NameTaken(ret.macros, name)
     THEN ManagerReturn(ret.macros, FALSE, last @@ [ out |-> FALSE ])
     ELSE ManagerReturn([ ret.macros EXCEPT ![name].description = description,
                                            ![name].commands = commands,
                                            ![name].modified = TRUE ],
                        TRUE, last @@ [ out |-> TRUE ])

\* delete_macro(name)
delete_macro(name) ==
  /\ ManagerCanBegin
  /\ LET last == [ op |-> "delete_macro", args |-> [ name |-> name ] ] IN
     IF ~NameTaken(ret.macros, name)
     THEN ManagerReturn(ret.macros, FALSE, last @@ [ out |-> FALSE ])
     ELSE ManagerReturn([ ret.macros EXCEPT ![name] = NoMacro ], TRUE,
                        last @@ [ out |-> TRUE ])

\* duplicate_macro(original_name, new_name)
duplicate_macro(original_name, new_name) ==
  /\ ManagerCanBegin
  /\ LET args == [ name |-> new_name, original_name |-> original_name ]
         original_macro == ret.macros[original_name] IN
     IF ~NameTaken(ret.macros, original_name) \/ NameTaken(ret.macros, new_name)
     THEN ManagerReturn(ret.macros, FALSE,
                        [ op |-> "duplicate_macro", args |-> args, out |-> FALSE ])
     ELSE CreateMacro("duplicate_macro", args, new_name,
                      << "Copy of" >> \o original_macro.description,
                      original_macro.commands, original_macro.author)

\* import_macro(filepath): the file cannot be read (return False), or each
\* of its names that is not a key yet is stored.
import_macro(imported_data) ==
  /\ ManagerCanBegin
  /\ LET new == { n \in MacroNames : imported_data[n].there /\ ~NameTaken(ret.macros, n) }
         args == [ names |-> { n \in MacroNames : imported_data[n].there } ] IN
     \/ ManagerReturn(ret.macros, FALSE,
                      [ op |-> "import_macro", args |-> args, out |-> FALSE ])
     \/ /\ new # {}
        /\ ManagerReturn([ n \in MacroNames |->
                             IF n \in new THEN imported_data[n] ELSE ret.macros[n] ],
                         TRUE, [ op |-> "import_macro", args |-> args, out |-> TRUE ])

NextManager ==
  \/ \E name \in MacroNames, description \in Descriptions, commands \in CommandLists :
       \/ create_macro(name, description, commands)
       \/ update_macro(name, description, commands)
  \/ \E name \in MacroNames : delete_macro(name)
  \/ \E original_name, new_name \in MacroNames : duplicate_macro(original_name, new_name)
  \/ \E imported_data \in ImportFiles : import_macro(imported_data)

SpecManager == InitManager /\ [][NextManager]_vars

\* The call that ends in this step was made with a name that was there / was
\* not there when it began.
OnExisting(ops) == ret'.last.op \in ops /\ ret.macros[ret'.last.args.name].there
OnAbsent(ops) == ret'.last.op \in ops /\ ~ret.macros[ret'.last.args.name].there

\* The call changes nothing and returns False.
ChangesNothing ==
  /\ ret'.last.out = FALSE
  /\ ret'.macros = ret.macros
  /\ ret'.saved = ret.saved

\* C27: an existing macro is never overwritten by creation: create_macro
\* and duplicate_macro with a target name that exists return False and
\* change nothing, import_macro leaves every existing name as it was, and
\* update_macro and delete_macro on an absent name return False and change
\* nothing.
C27_ExistingNamesAreKept ==
  [][/\ OnExisting({"create_macro", "duplicate_macro"}) => ChangesNothing
     /\ OnAbsent({"update_macro", "delete_macro"}) => ChangesNothing
     /\ ret'.last.op = "import_macro"
          => \A n \in MacroNames : ret.macros[n].there => ret'.macros[n] = ret.macros[n]
    ]_vars

\* C27 witness: create_macro was refused for a name that was there, with a
\* description other than the stored one, and the stored macro is as before.
C27_CreateRefused ==
  /\ ret.last.op = "create_macro"
  /\ ret.last.out = FALSE
  /\ ret.macros[ret.last.args.name].there
  /\ ret.macros[ret.last.args.name].description # ret.last.args.description

\* ----------------------------------------------------- the backup manager

\* Calls of create_backup, the latest reading of the clock (in seconds) and
\* the max_backups_per_device the manager is constructed with.
MaxBackupCalls == 4
MaxBackupNow == 2
MaxBackupsPerDevice == 2

\* The hostnames backups are made for.
Hostnames == { << "s", "w", "1" >>, << "s", "w", "/", "1" >>, << "s", "w", "_", "1" >> }

\* The characters of the class [<>:"/\\|?*]
InvalidFilenameChars == { "<", ">", ":", "\"", "/", "\\", "|", "?", "*" }

\* _sanitize_filename: re.sub(r'[<>:"/\\|?*]', '_', filename)
SanitizeFilename(filename) ==
  [ i \in 1..Len(filename) |->
      IF filename[i] \in InvalidFilenameChars THEN "_" ELSE filename[i] ]

\* backup_filename = f"{safe_hostname}_{timestamp}.cfg"
BackupFilename(safe_hostname, timestamp) == << safe_hostname, timestamp >>

\* list_backups(hostname): the metadata files whose "hostname" is hostname.
ListBackups(files, hostname) == { f \in files : f.hostname = hostname }

\* _cleanup_old_backups(hostname): backups.sort by timestamp;
\* to_remove = backups[:-self.max_backups_per_device]
ToRemove(files, hostname) ==
  LET backups == ListBackups(files, hostname) IN
  IF Cardinality(backups) > MaxBackupsPerDevice
  THEN { f \in backups :
           Cardinality({ g \in backups : g.timestamp > f.timestamp }) >= MaxBackupsPerDevice }
  ELSE {}

\* __init__: the directories are there and empty.  files: the metadata
\* files, each with the name of its backup file, its "hostname" and
\* "timestamp", and the number of the call that wrote it; created: the
\* numbers of the successful calls made for each hostname.
InitBackup ==
  /\ SessionInit
  /\ arg = [ fn |-> "backup" ]
  /\ ret = [ files |-> {}, now |-> 0, calls |-> 0,
             created |-> [ h \in Hostnames |-> {} ] ]

BackupStep(r) ==
  /\ ret' = r
  /\ arg' = arg
  /\ SessionIdle

\* A second passes.
BackupTick ==
  /\ ret.now < MaxBackupNow
  /\ BackupStep([ ret EXCEPT !.now = @ + 1 ])

\* create_backup(hostname, config_data): the backup and its metadata are
\* written under the file name of the sanitized hostname and the second,
\* replacing a file of that name; then
\* self._cleanup_old_backups(safe_hostname)
create_backup(hostname) ==
  /\ ret.calls < MaxBackupCalls
  /\ LET timestamp == ret.now
         safe_hostname == SanitizeFilename(hostname)
         name == BackupFilename(safe_hostname, timestamp)
         call == ret.calls + 1
         written == { f \in ret.files : f.name # name }
                      \cup { [ name |-> name, hostname |-> hostname,
                               timestamp |-> timestamp, call |-> call ] }
         to_remove == ToRemove(written, safe_hostname) IN
     BackupStep([ ret EXCEPT !.files = { f \in written :
                                           \A g \in to_remove : f.name # g.name },
                             !.calls = call,
                             !.created[hostname] = @ \cup {call} ])

NextBackup ==
  \/ BackupTick
  \/ \E hostname \in Hostnames : create_backup(hostname)

SpecBackup == InitBackup /\ [][NextBackup]_vars

\* The latest (at most max_backups_per_device) of the calls in made.
LatestCalls(made) ==
  { c \in made : Cardinality({ d \in made : d > c }) < MaxBackupsPerDevice }

\* C28: after n successful create_backup calls for a hostname,
\* list_backups(hostname) reports min(n, max_backups_per_device) backups,
\* and they are the most recently created ones.
C28_RetentionKeepsLatest ==
  \A h \in Hostnames :
    { f.call : f \in ListBackups(ret.files, h) } = LatestCalls(ret.created[h])

\* ------------------------------------- macros sharing one SSHClient

\* The callers that share the session: two requests or threads of a front
\* end, each running a macro or one execute_command call.
Callers == {"first", "second"}

\* What the second caller runs besides the first caller's macro.
Runs == {"macro", "command"}

\* The commands caller c is to execute, in order.
CommandsOf(c) ==
  IF c = "first" \/ arg.second = "macro" THEN MacroCommands ELSE << << "x" >> >>

\* One connected SSHClient, its lock free; each caller before its first
\* command.  lock: who holds self.lock; at: the index of each caller's
\* current command; pc: where the caller is in execute_command ("loop": not
\* in a call); sent: the commands sent to the device, with their callers.
InitShared ==
  /\ SessionInit
  /\ arg \in { [ fn |-> "shared", front |-> f, second |-> r ] : f \in Fronts, r \in Runs }
  /\ ret = [ lock |-> Unlocked, at |-> [ c \in Callers |-> 1 ],
             pc |-> [ c \in Callers |-> "loop" ], sent |-> << >>,
             ended |-> [ c \in Callers |-> FALSE ] ]

SharedStep(r) ==
  /\ ret' = r
  /\ arg' = arg
  /\ SessionIdle

\* for command in macro['commands']: ssh_client.execute_command(command),
\* up to `with self.lock:`
shared_call(c) ==
  /\ ret.pc[c] = "loop"
  /\ ~ret.ended[c]
  /\ ret.at[c] <= Len(CommandsOf(c))
  /\ SharedStep([ ret EXCEPT !.pc[c] = "e_send" ])

\* with self.lock: self._send_command_raw(command)
shared_send(c) ==
  /\ ret.pc[c] = "e_send"
  /\ ret.lock = Unlocked
  /\ SharedStep([ ret EXCEPT !.lock = c, !.pc[c] = "e_loop",
                             !.sent = Append(@, [ by |-> c, k |-> ret.at[c] ]) ])

\* output = self._wait_for_output(timeout); the with-block is left and the
\* call returns, or raises: in main and main_window an exception ends the
\* macro, web_app records it and goes on to the next command.
shared_return(c) ==
  /\ ret.pc[c] = "e_loop"
  /\ \E raised \in BOOLEAN :
       SharedStep([ ret EXCEPT !.lock = Unlocked, !.pc[c] = "loop",
                               !.at[c] = @ + 1,
                               !.ended[c] = raised /\ arg.front # "web_app" ])

NextShared ==
  \E c \in Callers : shared_call(c) \/ shared_send(c) \/ shared_return(c)

SpecShared == InitShared /\ [][NextShared]_vars

\* C32: between the sending of two consecutive commands of one macro no
\* command of another caller on the same SSHClient is sent.
C32_MacroNotInterleaved ==
  \A i, j \in 1..Len(ret.sent) :
    (i < j /\ ret.sent[i].by = ret.sent[j].by)
      => \A l \in i..j : ret.sent[l].by = ret.sent[i].by

\* ------------------------------------------- the command-result cache

\* Calls made on one CommandResultCache.
MaxResultCalls == 3

\* Hosts and commands: a host, the same host with a port, and commands
\* without and with a colon.
ResultHosts == { << "h" >>, << "h", ":", "p" >> }
ResultCommands == { << "c" >>, << "p", ":", "c" >> }

\* cache_key = f"cmd:{host}:{command}"
CacheKey(host, command) == << "c", "m", "d", ":" >> \o host \o << ":" >> \o command

\* prefix = f"cmd:{host}:"
HostPrefix(host) == << "c", "m", "d", ":" >> \o host \o << ":" >>

\* key.startswith(prefix)
StartsWith(key, prefix) ==
  /\ Len(key) >= Len(prefix)
  /\ SubSeq(key, 1, Len(prefix)) = prefix

ResultKeys == { CacheKey(h, c) : h \in ResultHosts, c \in ResultCommands }

\* The result of a command on a host (it names both), and no result.
ResultOf(host, command) == [ there |-> TRUE, host |-> host, command |-> command ]
NoResult == [ there |-> FALSE ]

\* __init__: self.cache = {}.  live: the (host, command) pairs that have
\* been cached and whose host has not been invalidated since.  The clock
\* stands still: no entry expires.
InitResults ==
  /\ SessionInit
  /\ arg = [ fn |-> "results" ]
  /\ ret = [ cache |-> [ k \in ResultKeys |-> NoResult ], live |-> {},
             calls |-> 0, last |-> [ op |-> "none" ] ]

ResultStep(r) ==
  /\ ret' = [ r EXCEPT !.calls = @ + 1 ]
  /\ arg' = arg
  /\ SessionIdle

\* cache_command_result(host, command, result): self.set(cache_key, result, ttl)
cache_command_result(host, command) ==
  /\ ret.calls < MaxResultCalls
  /\ ResultStep([ ret EXCEPT !.cache[CacheKey(host, command)] = ResultOf(host, command),
                          !.live = @ \cup { [ host |-> host, command |-> command ] },
                          !.last = [ op |-> "cache_command_result" ] ])

\* get_command_result(host, command): return self.get(cache_key)
get_command_result(host, command) ==
  /\ ret.calls < MaxResultCalls
  /\ ResultStep([ ret EXCEPT !.last = [ op |-> "get_command_result", host |-> host,
                                     command |-> command,
                                     out |-> ret.cache[CacheKey(host, command)] ] ])

\* for key in self.cache.keys(): if key.startswith(prefix): ...
KeysToDelete(cache, host) ==
  { k \in ResultKeys : cache[k].there /\ StartsWith(k, HostPrefix(host)) }

\* invalidate_host_cache(host)
invalidate_host_cache(host) ==
  /\ ret.calls < MaxResultCalls
  /\ LET keys_to_delete == KeysToDelete(ret.cache, host) IN
     ResultStep([ ret EXCEPT !.cache = [ k \in ResultKeys |->
                                        IF k \in keys_to_delete THEN NoResult ELSE @[k] ],
                          !.live = { e \in @ : e.host # host },
                          !.last = [ op |-> "invalidate_host_cache", host |-> host,
                                     out |-> Cardinality(keys_to_delete) ] ])

NextResults ==
  \/ \E host \in ResultHosts, command \in ResultCommands :
       \/ cache_command_result(host, command)
       \/ get_command_result(host, command)
  \/ \E host \in ResultHosts : invalidate_host_cache(host)

SpecResults == InitResults /\ [][NextResults]_vars

\* C33: get_command_result(h, c) returns only a result cached for that h
\* and c; invalidate_host_cache(h) returns the number of entries cached for
\* h, and leaves the entries of every other host in place.
C33_KeysAreExactPerHostAndCommand ==
  [][/\ (ret'.last.op = "get_command_result" /\ ret'.last.out.there)
          => ret'.last.out = ResultOf(ret'.last.host, ret'.last.command)
     /\ ret'.last.op = "invalidate_host_cache"
          => /\ ret'.last.out = Cardinality({ e \in ret.live : e.host = ret'.last.host })
             /\ \A e \in ret.live :
                  e.host # ret'.last.host
                    => ret'.cache[CacheKey(e.host, e.command)] = ret.cache[CacheKey(e.host, e.command)]
    ]_vars

\* ---------------------------------------------------- the network monitor

\* Calls made on one NetworkMonitor from the application's thread, the
\* rounds one monitoring loop makes and the max_failures the monitor is
\* constructed with.
MaxMonitorCalls == 3
MaxRounds == 1
max_failures == 2

MonitorIds == {"d1", "d2"}

\* The threads start_monitoring can have created.
LoopIds == 1..MaxMonitorCalls

\* A device id that is not a key of self.device_status.
NoStatus == 0

\* The DeviceStatus add_device creates.
NewDeviceStatus == [ status |-> "unknown", consecutive_failures |-> 0 ]

\* The locals of a monitoring loop between two checks.  round: the rounds
\* begun; size, seen: the length of self.devices when the for statement
\* began and the keys it has yielded; whole: the devices registered since
\* the round began; checked: the checks made in the round.
LoopLocals ==
  [ device_id |-> None, obj |-> 0, total |-> 0, successful |-> 0, success |-> FALSE,
    previous_status |-> None, new_status |-> None ]

NewLoop ==
  [ pc |-> "while", round |-> 0, size |-> 0, seen |-> {}, whole |-> {},
    checked |-> [ d \in MonitorIds |-> 0 ], aborted |-> FALSE, at |-> LoopLocals ]

\* A monitor with some devices added, monitoring not started.  objects: the
\* DeviceStatus objects created so far; device_status: for each key, which
\* of them it refers to.
InitMonitor ==
  /\ SessionInit
  /\ arg = [ fn |-> "monitor" ]
  /\ \E registered \in { {"d1"}, MonitorIds } :
       ret = [ devices |-> registered,
               device_status |-> [ d \in MonitorIds |->
                                     IF d \in registered THEN (IF d = "d1" THEN 1 ELSE 2)
                                     ELSE NoStatus ],
               objects |-> [ o \in 1..Cardinality(registered) |-> NewDeviceStatus ],
               monitoring_enabled |-> FALSE, loops |-> << >>,
               api |-> [ pc |-> "idle", device_id |-> None ], calls |-> 0,
               total_checks |-> 0, successful_checks |-> 0, events |-> 0 ]

MonitorStep(r) ==
  /\ ret' = r
  /\ arg' = arg
  /\ SessionIdle

\* The application's thread may call the monitor.
MonitorCanBegin == ret.api.pc = "idle" /\ ret.calls < MaxMonitorCalls

\* start_monitoring()
start_monitoring ==
  /\ MonitorCanBegin
  /\ IF ~ret.monitoring_enabled
     THEN MonitorStep([ ret EXCEPT !.calls = @ + 1, !.monitoring_enabled = TRUE,
                                   !.loops = Append(@, NewLoop) ])
     ELSE MonitorStep([ ret EXCEPT !.calls = @ + 1 ])

\* stop_monitoring(): self.monitoring_enabled = False; the join returns
\* when the thread has ended or after 5 seconds.
stop_monitoring ==
  /\ MonitorCanBegin
  /\ MonitorStep([ ret EXCEPT !.calls = @ + 1, !.monitoring_enabled = FALSE ])

\* add_device: self.devices[device_id] = device_config
add_device(device_id) ==
  /\ MonitorCanBegin
  /\ MonitorStep([ ret EXCEPT !.calls = @ + 1, !.devices = @ \cup {device_id},
                              !.api = [ pc |-> "add_status", device_id |-> device_id ] ])

\* add_device: self.device_status[device_id] = DeviceStatus(...)
add_device_status ==
  /\ ret.api.pc = "add_status"
  /\ MonitorStep([ ret EXCEPT !.objects = Append(@, NewDeviceStatus),
                              !.device_status[ret.api.device_id] = Len(ret.objects) + 1,
                              !.api = [ pc |-> "idle", device_id |-> None ] ])

\* remove_device: if device_id in self.devices: del self.devices[device_id]
remove_device(device_id) ==
  /\ MonitorCanBegin
  /\ IF device_id \in ret.devices
     THEN MonitorStep([ ret EXCEPT !.calls = @ + 1, !.devices = @ \ {device_id},
                                   !.loops = [ l \in DOMAIN @ |->
                                                 [ @[l] EXCEPT !.whole = @ \ {device_id} ] ],
                                   !.api = [ pc |-> "remove_status", device_id |-> device_id ] ])
     ELSE MonitorStep([ ret EXCEPT !.calls = @ + 1 ])

\* remove_device: del self.device_status[device_id]
remove_device_status ==
  /\ ret.api.pc = "remove_status"
  /\ MonitorStep([ ret EXCEPT !.device_status[ret.api.device_id] = NoStatus,
                              !.api = [ pc |-> "idle", device_id |-> None ] ])

\* The loop's handler: except Exception: ...; time.sleep(10)
LoopRaised(r, l) ==
  [ r EXCEPT !.loops[l].pc = "sleep", !.loops[l].aborted = TRUE, !.loops[l].at = LoopLocals ]

\* while self.monitoring_enabled: the loop ends, or begins a round with
\* for device_id, device_config in self.devices.items()
monitoring_loop_while(l) ==
  /\ l \in DOMAIN ret.loops
  /\ ret.loops[l].pc = "while"
  /\ IF ~ret.monitoring_enabled
     THEN MonitorStep([ ret EXCEPT !.loops[l].pc = "exited" ])
     ELSE /\ ret.loops[l].round < MaxRounds
          /\ MonitorStep([ ret EXCEPT !.loops[l] =
               [ NewLoop EXCEPT !.pc = "for", !.round = ret.loops[l].round + 1,
                                !.size = Cardinality(ret.devices),
                                !.whole = ret.devices ] ])

\* The for statement yields its next device, fails because the dictionary
\* changed size, or is exhausted (time.sleep(self.check_interval)); then
\* _check_device: current_status = self.device_status[device_id] (a
\* KeyError goes to the handler, whose _update_device_status raises it
\* again, up to the loop's handler) and the read of self.total_checks.
monitoring_loop_for(l) ==
  /\ l \in DOMAIN ret.loops
  /\ ret.loops[l].pc = "for"
  /\ LET loop == ret.loops[l] IN
     IF Cardinality(ret.devices) # loop.size
     THEN MonitorStep(LoopRaised(ret, l))
     ELSE IF ret.devices \ loop.seen = {}
     THEN MonitorStep([ ret EXCEPT !.loops[l].pc = "sleep" ])
     ELSE \E device_id \in ret.devices \ loop.seen :
            IF ret.device_status[device_id] = NoStatus
            THEN MonitorStep(LoopRaised([ ret EXCEPT !.loops[l].seen = @ \cup {device_id} ], l))
            ELSE MonitorStep([ ret EXCEPT
                   !.loops[l].seen = @ \cup {device_id},
                   !.loops[l].pc = "check",
                   !.loops[l].at = [ LoopLocals EXCEPT !.device_id = device_id,
                                                       !.total = ret.total_checks ] ])

\* self.total_checks += 1 (its write); result = self._ping_check(...) or
\* one of the other checks
check_device(l) ==
  /\ l \in DOMAIN ret.loops
  /\ ret.loops[l].pc = "check"
  /\ \E success \in BOOLEAN :
       MonitorStep([ ret EXCEPT
         !.total_checks = ret.loops[l].at.total + 1,
         !.loops[l].checked[ret.loops[l].at.device_id] = @ + 1,
         !.loops[l].at.success = success,
         !.loops[l].pc = "update" ])

\* _update_device_status, lines 364-378: the status object is fetched (a
\* KeyError ends the round as above), its consecutive_failures is set and
\* new_status is chosen.
update_device_status(l) ==
  /\ l \in DOMAIN ret.loops
  /\ ret.loops[l].pc = "update"
  /\ LET at == ret.loops[l].at
         obj == ret.device_status[at.device_id] IN
     IF obj = NoStatus
     THEN MonitorStep(LoopRaised(ret, l))
     ELSE LET current_status == ret.objects[obj]
              failures == IF at.success THEN 0 ELSE current_status.consecutive_failures + 1
              new_status == IF at.success THEN "up"
                            ELSE IF failures >= max_failures THEN "down" ELSE "warning" IN
          MonitorStep([ ret EXCEPT
            !.objects[obj].consecutive_failures = failures,
            !.loops[l].at.obj = obj,
            !.loops[l].at.previous_status = current_status.status,
            !.loops[l].at.new_status = new_status,
            !.loops[l].pc = "store" ])

\* _update_device_status, lines 381-401: current_status.status = new_status
\* and the status_change event if previous_status != new_status; then the
\* read of self.successful_checks.
update_device_status_store(l) ==
  /\ l \in DOMAIN ret.loops
  /\ ret.loops[l].pc = "store"
  /\ LET at == ret.loops[l].at IN
     MonitorStep([ ret EXCEPT
       !.objects[at.obj].status = at.new_status,
       !.events = IF at.previous_status # at.new_status THEN @ + 1 ELSE @,
       !.loops[l].at.successful = ret.successful_checks,
       !.loops[l].pc = "count" ])

\* if result["success"]: self.successful_checks += 1 (its write)
check_device_count(l) ==
  /\ l \in DOMAIN ret.loops
  /\ ret.loops[l].pc = "count"
  /\ MonitorStep([ ret EXCEPT
       !.successful_checks = IF ret.loops[l].at.success
                             THEN ret.loops[l].at.successful + 1 ELSE @,
       !.loops[l].at = LoopLocals,
       !.loops[l].pc = "for" ])

\* time.sleep(...) returns
monitoring_loop_sleep(l) ==
  /\ l \in DOMAIN ret.loops
  /\ ret.loops[l].pc = "sleep"
  /\ MonitorStep([ ret EXCEPT !.loops[l].pc = "while" ])

NextMonitor ==
  \/ start_monitoring
  \/ stop_monitoring
  \/ \E device_id \in MonitorIds : add_device(device_id) \/ remove_device(device_id)
  \/ add_device_status
  \/ remove_device_status
  \/ \E l \in LoopIds :
       \/ monitoring_loop_while(l)
       \/ monitoring_loop_for(l)
       \/ check_device(l)
       \/ update_device_status(l)
       \/ update_device_status_store(l)
       \/ check_device_count(l)
       \/ monitoring_loop_sleep(l)

SpecMonitor == InitMonitor /\ [][NextMonitor]_vars

\* The monitoring loops that have not ended.
Running == { l \in DOMAIN ret.loops : ret.loops[l].pc # "exited" }

\* C34: at most one monitoring loop runs per NetworkMonitor at any time,
\* for every sequence of start_monitoring and stop_monitoring calls.
C34_AtMostOneLoop == Cardinality(Running) <= 1

\* A loop has come to the end of a round with every device that was
\* registered throughout the round checked exactly once.
RoundsComplete ==
  \A l \in DOMAIN ret.loops :
    ret.loops[l].pc = "sleep"
      => \A d \in ret.loops[l].whole : ret.loops[l].checked[d] = 1

\* self.devices and self.device_status have the same keys.
SameIds == ret.devices = { d \in MonitorIds : ret.device_status[d] # NoStatus }

\* A step of a loop gives device d a status, or changes the status object
\* that was d's before the device was removed.
TouchedByLoop(d) ==
  /\ ret'.loops # ret.loops
  /\ \/ ret'.device_status[d] # ret.device_status[d]
     \/ \E l \in DOMAIN ret.loops :
          /\ ret.loops[l].at.device_id = d
          /\ ret.loops[l].pc = "store"
          /\ ret'.objects # ret.objects

\* C36: in every round each device registered for the whole round is
\* checked exactly once, also when add_device or remove_device is called
\* during the round; devices and device_status always hold the same ids;
\* a check never recreates or updates the status of a removed device.
C36_RoundChecksEveryDeviceOnce ==
  /\ [](RoundsComplete /\ SameIds)
  /\ [][\A d \in MonitorIds :
          TouchedByLoop(d) => (ret.device_status[d] # NoStatus /\ d \in ret.devices)]_vars

\* A loop is inside _update_device_status with the status object obj.
Updating(obj) ==
  \E l \in DOMAIN ret.loops :
    ret.loops[l].pc = "store" /\ ret.loops[l].at.obj = obj

\* UP, WARNING and DOWN agree with consecutive_failures.
StatusAgrees(st) ==
  /\ st.status = "up" => st.consecutive_failures = 0
  /\ st.status = "warning"
       => (0 < st.consecutive_failures /\ st.consecutive_failures < max_failures)
  /\ st.status = "down" => st.consecutive_failures >= max_failures

\* C35: after every check result the status agrees with
\* consecutive_failures; a status_change event is appended exactly when the
\* new status differs from the previous one; successful_checks never
\* exceeds total_checks.
C35_StatusMachine ==
  /\ [](/\ \A obj \in DOMAIN ret.objects :
             ~Updating(obj) => StatusAgrees(ret.objects[obj])
        /\ ret.successful_checks <= ret.total_checks)
  /\ [][\A l \in DOMAIN ret.loops :
          (ret.loops[l].pc = "store" /\ ret'.loops[l].pc = "count")
            => ((ret'.events = ret.events + 1)
                  <=> (ret'.objects[ret.loops[l].at.obj].status
                         # ret.objects[ret.loops[l].at.obj].status))]_vars

\* ------------------------------------------------------------------
\* The web API's paths to the device (web_app.py): /api/execute,
\* /api/execute_macro and /api/add_macro.

MaxWebCalls == 3

\* len(command) > 1000
MaxCommandLength == 1000

dangerous_patterns ==
  { << "r", "m", " ", "-", "r", "f" >>,
    << "d", "e", "l", " " >>,
    << "f", "o", "r", "m", "a", "t" >>,
    << "f", "d", "i", "s", "k" >>,
    << "m", "k", "f", "s" >>,
    << "d", "d", " ", "i", "f", "=" >>,
    << ">", " ", "/", "d", "e", "v", "/" >>,
    << "s", "h", "u", "t", "d", "o", "w", "n" >>,
    << "r", "e", "b", "o", "o", "t" >>,
    << "h", "a", "l", "t" >> }

\* A command of n characters.
LongCommand(n) == [ i \in 1..n |-> "a" ]

\* data['command'] of a request
WebCommands ==
  { << "s", "h", "o", "w" >>, << " ", "R", "e", "b", "o", "o", "t", " " >>, << "d", "e", "l", " ", "x" >>,
    << " ", " ", " " >>, LongCommand(MaxCommandLength), LongCommand(MaxCommandLength + 1) }

WebMacroNames == {"default", "m1", "m2"}

\* data['commands'] of /api/add_macro
WebCommandLists ==
  { << << "s", "h", "o", "w" >> >>, << << "s", "h", "o", "w" >>, << "r", "e", "b", "o", "o", "t" >> >>,
    << LongCommand(MaxCommandLength + 1) >> }

NoWebMacro == [ there |-> FALSE ]

\* for pattern in dangerous_patterns: if pattern in command_lower
Dangerous(command) ==
  \E pattern \in dangerous_patterns : Contains(Lower(command), pattern)

\* The macros the manager starts with, and a session connected or not.
\* passed: the commands the last request gave to ssh_client.execute_command.
InitWeb ==
  /\ SessionInit
  /\ \E has_session \in BOOLEAN : arg = [ fn |-> "web", connected |-> has_session ]
  /\ ret = [ macros |-> [ n \in WebMacroNames |->
                          IF n = "default"
                          THEN [ there |-> TRUE, commands |-> << << "s", "h", "o", "w" >> >> ]
                          ELSE NoWebMacro ],
             passed |-> <<>>, route |-> "none", success |-> FALSE, calls |-> 0 ]

WebStep(r) ==
  /\ ret' = [ r EXCEPT !.calls = @ + 1 ]
  /\ arg' = arg
  /\ SessionIdle

\* /api/execute
web_execute(data) ==
  /\ ret.calls < MaxWebCalls
  /\ LET command == Strip(data)
         refused == [ ret EXCEPT !.route = "execute", !.success = FALSE, !.passed = <<>> ] IN
     IF ~arg.connected THEN WebStep(refused)
     ELSE IF command = <<>> THEN WebStep(refused)
     ELSE IF Dangerous(command) THEN WebStep(refused)
     ELSE IF Len(command) > MaxCommandLength THEN WebStep(refused)
     ELSE WebStep([ ret EXCEPT !.route = "execute", !.success = TRUE,
                               !.passed = << command >> ])

\* /api/execute_macro: for command in macro['commands']:
\*   ssh_client.execute_command(command)
web_execute_macro(macro_name) ==
  /\ ret.calls < MaxWebCalls
  /\ LET macro == ret.macros[macro_name]
         refused == [ ret EXCEPT !.route = "execute_macro", !.success = FALSE,
                                 !.passed = <<>> ] IN
     IF ~arg.connected THEN WebStep(refused)
     ELSE IF ~macro.there THEN WebStep(refused)
     ELSE WebStep([ ret EXCEPT !.route = "execute_macro", !.success = TRUE,
                               !.passed = macro.commands ])

\* /api/add_macro: macro_manager.create_macro(name, description, commands, author)
web_add_macro(name, commands) ==
  /\ ret.calls < MaxWebCalls
  /\ IF ret.macros[name].there
     THEN WebStep([ ret EXCEPT !.route = "add_macro", !.success = FALSE, !.passed = <<>> ])
     ELSE WebStep([ ret EXCEPT !.route = "add_macro", !.success = TRUE, !.passed = <<>>,
                               !.macros[name] = [ there |-> TRUE, commands |-> commands ] ])

NextWeb ==
  \/ \E data \in WebCommands : web_execute(data)
  \/ \E macro_name \in WebMacroNames : web_execute_macro(macro_name)
  \/ \E name \in WebMacroNames, commands \in WebCommandLists : web_add_macro(name, commands)

SpecWeb == InitWeb /\ [][NextWeb]_vars

\* C37: no command that contains a blocked pattern or is longer than 1000
\* characters is passed to SSHClient.execute_command by a web request,
\* through /api/execute or as a member of a macro run by /api/execute_macro.
C37_FilterCoversEveryPath ==
  \A i \in DOMAIN ret.passed :
    ~Dangerous(ret.passed[i]) /\ Len(ret.passed[i]) <= MaxCommandLength

\* ------------------------------------------------------------------
\* Session tokens of EnhancedSecureStorage (core/security_enhanced.py).
\* Time is counted in hours; a token is the number of the call of
\* secrets.token_urlsafe that returned it.

MaxTokenCalls == 4
MaxTokens == 2
MaxTokenNow == 3
MaxDuration == 1

\* A token no call of generate_session_token returned.
ForgedToken == 0

\* What a caller can present: a token it was given, or one it made up.
TokenInputs == { ForgedToken } \cup (1..MaxTokens)

\* duration_hours
Durations == 0..MaxDuration

NoSessionToken == [ there |-> FALSE ]

\* The tokens, the hour of datetime.now(), the number of tokens issued,
\* the tokens revoked or found expired so far, and the last call.
InitTokens ==
  /\ SessionInit
  /\ arg = [ fn |-> "tokens" ]
  /\ ret = [ session_tokens |-> [ t \in 1..MaxTokens |-> NoSessionToken ],
             now |-> 0, issued |-> 0, ended |-> {}, calls |-> 0,
             last |-> [ op |-> "none" ] ]

TokenStep(r) ==
  /\ ret' = r
  /\ arg' = arg
  /\ SessionIdle

\* The revocation that leaves the token as it is.
RevokeNothing(session_tokens, token) == session_tokens

\* revoke_session_token: if token in self._session_tokens:
\*   self._session_tokens[token]['active'] = False
Revoke(session_tokens, token) ==
  IF token \in DOMAIN session_tokens /\ session_tokens[token].there
  THEN [ session_tokens EXCEPT ![token].active = FALSE ]
  ELSE session_tokens

\* token in self._session_tokens
Known(session_tokens, token) ==
  token \in DOMAIN session_tokens /\ session_tokens[token].there

\* generate_session_token(user_id, duration_hours)
generate_session_token(duration_hours) ==
  /\ ret.calls < MaxTokenCalls
  /\ ret.issued < MaxTokens
  /\ LET token == ret.issued + 1
         expiry == ret.now + duration_hours IN
     TokenStep([ ret EXCEPT
       !.session_tokens[token] = [ there |-> TRUE, expires |-> expiry, active |-> TRUE ],
       !.issued = token, !.calls = @ + 1,
       !.last = [ op |-> "generate_session_token", token |-> token ] ])

\* validate_session_token(token)
validate_session_token(token) ==
  /\ ret.calls < MaxTokenCalls
  /\ token <= ret.issued
  /\ IF ~Known(ret.session_tokens, token)
     THEN TokenStep([ ret EXCEPT !.calls = @ + 1,
            !.last = [ op |-> "validate_session_token", token |-> token, out |-> FALSE ] ])
     ELSE LET entry == ret.session_tokens[token] IN
          IF ~entry.active \/ ret.now > entry.expires
          THEN TokenStep([ ret EXCEPT !.calls = @ + 1,
                 !.session_tokens = Revoke(@, token),
                 !.ended = @ \cup { token },
                 !.last = [ op |-> "validate_session_token", token |-> token,
                            out |-> FALSE ] ])
          ELSE TokenStep([ ret EXCEPT !.calls = @ + 1,
                 !.last = [ op |-> "validate_session_token", token |-> token,
                            out |-> TRUE ] ])

\* revoke_session_token(token)
revoke_session_token(token) ==
  /\ ret.calls < MaxTokenCalls
  /\ token <= ret.issued
  /\ TokenStep([ ret EXCEPT !.calls = @ + 1,
       !.session_tokens = Revoke(@, token),
       !.ended = @ \cup { token },
       !.last = [ op |-> "revoke_session_token", token |-> token ] ])

\* An hour passes on the clock datetime.now() reads.
token_hour_passes ==
  /\ ret.now < MaxTokenNow
  /\ TokenStep([ ret EXCEPT !.now = @ + 1 ])

NextTokens ==
  \/ \E duration_hours \in Durations : generate_session_token(duration_hours)
  \/ \E token \in TokenInputs : validate_session_token(token)
  \/ \E token \in TokenInputs : revoke_session_token(token)
  \/ token_hour_passes

SpecTokens == InitTokens /\ [][NextTokens]_vars

\* The step is a call of validate_session_token.
Validates ==
  ret'.calls = ret.calls + 1 /\ ret'.last.op = "validate_session_token"

\* C38: validate_session_token(t) returns true only for a token that
\* generate_session_token returned, that has not been revoked and whose
\* expiry time has not passed; once a token has been revoked or has been
\* found expired by a validation, every later validation of it returns false.
C38_ValidOnlyWhileLive ==
  [][Validates =>
       LET t == ret'.last.token IN
       /\ ret'.last.out => /\ t \in 1..ret.issued
                            /\ t \notin ret.ended
                            /\ ret.now <= ret.session_tokens[t].expires
       /\ t \in ret.ended => ~ret'.last.out]_vars

\* A token that was revoked before its expiry time has been presented
\* again and refused.
C38_Witness ==
  /\ ret.last.op = "validate_session_token"
  /\ ~ret.last.out
  /\ Known(ret.session_tokens, ret.last.token)
  /\ ret.last.token \in ret.ended
  /\ ret.session_tokens[ret.last.token].expires >= ret.now

====
